---- MODULE Spec2Model ----
(***************************************************************************)
(* rust-calc: tokenizer -> precedence-climbing parser -> tree-walking      *)
(* evaluator with a persistent Environment, driven by a REPL loop.         *)
(*                                                                         *)
(* Text is a sequence of one-character strings.  The numeric parameter N   *)
(* is modelled by exact rationals <<numerator, denominator>> in lowest     *)
(* terms with a positive denominator.                                      *)
(***************************************************************************)
EXTENDS Integers, Sequences, FiniteSets

VARIABLES
    pc,         \* position of the front end: main, readline, eval, show, exited
    mode,       \* how main runs the evaluator: none yet, repl, or args (one shot)
    input,      \* the line handed to Evaluator::parse
    env,        \* Evaluator.env
    envBefore,  \* Evaluator.env when the latest parse call started
    program,    \* what parse_program returned inside the latest parse call
    res,        \* what the latest parse call returned
    erred,      \* whether some parse call of this run has returned an error
    lexPc,      \* position of a direct consumer of the lexer: idle or iterating
    lexInput,   \* the text handed to Lexer::new
    lexer,      \* Lexer.fsm: None, or Some(context of the machine in its Start state)
    yielded,    \* the items next() has returned so far, in order
    nones,      \* how many calls of next() have returned None
    calcPc,     \* position of a caller of the legacy calculator
    calcExpression,     \* MathExpression.expression
    parsed_expression,  \* MathExpression.parsed_expression
    operation,  \* the MathOperation constructed: operator and operand strings
    outcome     \* what the last call of the legacy calculator returned, or its panic

frontVars == <<pc, mode, input, env, envBefore, program, res, erred>>
lexVars == <<lexPc, lexInput, lexer, yielded, nones>>
mathVars == <<calcPc, calcExpression, parsed_expression, operation, outcome>>
vars == <<frontVars, lexVars, mathVars>>

(***************************************************************************)
(* Bounds                                                                  *)
(***************************************************************************)
\* statements per input line of the session specification
MaxStmts == 3
\* binary operators per input line of the expression specification
MaxOps == 3
\* digits on each side of the decimal point of a generated numeral
MaxDigits == 2
\* lexemes joined into one text of the lexer specification
MaxLexPieces == 3
\* calls of next() made after the lexer has ended
MaxNones == 2
\* statement bodies, each with what follows it, per input line of the program specification
MaxProgPieces == 2
\* statements per input line of the environment specification
MaxEnvStmts == 2
\* leading signs of a signed operand
MaxSigns == 2
\* operators in a row in an expression of the legacy calculator
MaxConsecutive == 3
\* digits after the decimal point that to_dec_string is asked for
MaxFracDigits == 4

(***************************************************************************)
(* Numeric values (N: NumericValue)                                        *)
(***************************************************************************)
Abs(n) == IF n < 0 THEN -n ELSE n

RECURSIVE Gcd(_, _)
Gcd(a, b) == IF b = 0 THEN a ELSE Gcd(b, a % b)

Rat(n, d) ==
    LET g == Gcd(Abs(n), Abs(d))
        s == IF d < 0 THEN -1 ELSE 1
    IN  <<(s * n) \div g, (s * d) \div g>>

Num(n) == <<n, 1>>
Zero == Num(0)

RatAdd(a, b) == Rat(a[1] * b[2] + b[1] * a[2], a[2] * b[2])
RatSub(a, b) == Rat(a[1] * b[2] - b[1] * a[2], a[2] * b[2])
RatMul(a, b) == Rat(a[1] * b[1], a[2] * b[2])
RatDiv(a, b) == Rat(a[1] * b[2], a[2] * b[1])

RECURSIVE IntPow(_, _)
IntPow(b, e) == IF e = 0 THEN 1 ELSE b * IntPow(b, e - 1)

RatPow(a, b) ==
    IF b[1] >= 0
    THEN <<IntPow(a[1], b[1]), IntPow(a[2], b[1])>>
    ELSE Rat(IntPow(a[2], -b[1]), IntPow(a[1], -b[1]))

RECURSIVE IsqrtFrom(_, _)
IsqrtFrom(n, k) == IF (k + 1) * (k + 1) > n THEN k ELSE IsqrtFrom(n, k + 1)
Isqrt(n) == IsqrtFrom(n, 0)

\* square root, exact on squares of rationals, rounded down per component otherwise
RatSqrt(a) == Rat(Isqrt(a[1]), Isqrt(a[2]))

(***************************************************************************)
(* Results                                                                 *)
(***************************************************************************)
Ok(v) == [ok |-> TRUE, val |-> v]
Err(e) == [ok |-> FALSE, val |-> e]

None == <<"None">>
Some(v) == <<"Some", v>>

(***************************************************************************)
(* Tokens (lexer/token.rs)                                                 *)
(***************************************************************************)
TNumber(n) == <<"Number", n>>
TIdentifier(name) == <<"Identifier", name>>
TOperator(op) == <<"Operator", op>>
TPunctuation(p) == <<"Punctuation", p>>
TEof == <<"Eof">>

Operators == {"Plus", "Minus", "Star", "Slash", "Caret"}

OperatorGet(c) ==
    CASE c = "+" -> Some("Plus")
      [] c = "-" -> Some("Minus")
      [] c = "*" -> Some("Star")
      [] c = "/" -> Some("Slash")
      [] c = "^" -> Some("Caret")
      [] OTHER -> None

PriorityStarAsPlus(op) ==
    CASE op = "Plus" -> 1
      [] op = "Minus" -> 1
      [] op = "Star" -> 1
      [] op = "Slash" -> 2
      [] op = "Caret" -> 3

Priority(op) ==
    CASE op = "Plus" -> 1
      [] op = "Minus" -> 1
      [] op = "Star" -> 2
      [] op = "Slash" -> 2
      [] op = "Caret" -> 3

AssociativityAllLeft(op) == "Left"

Associativity(op) == IF op = "Caret" THEN "Right" ELSE "Left"

PunctuationGet(c) ==
    CASE c = "(" -> Some("LeftParenthesis")
      [] c = ")" -> Some("RightParenthesis")
      [] c = ";" -> Some("Semicolon")
      [] c = "=" -> Some("Assignment")
      [] OTHER -> None

IsPunct(tok, p) == tok[1] = "Punctuation" /\ tok[2] = p

(***************************************************************************)
(* Characters                                                              *)
(***************************************************************************)
NoChar == ""

DigitSeq == <<"0", "1", "2", "3", "4", "5", "6", "7", "8", "9">>
Digits == {DigitSeq[i] : i \in 1..10}
DigitVal(c) == (CHOOSE i \in 1..10 : DigitSeq[i] = c) - 1

Letters ==
    {"a", "b", "c", "d", "e", "f", "g", "h", "i", "j", "k", "l", "m",
     "n", "o", "p", "q", "r", "s", "t", "u", "v", "w", "x", "y", "z",
     "A", "B", "C", "D", "E", "F", "G", "H", "I", "J", "K", "L", "M",
     "N", "O", "P", "Q", "R", "S", "T", "U", "V", "W", "X", "Y", "Z"}

\* the two-byte white-space character U+00A0, written by its code point
NoBreakSpace == "U+00A0"

\* char::is_whitespace: the Unicode White_Space property
IsWhitespace(c) == c \in {" ", "\t", "\n", "\r", NoBreakSpace}
IsAsciiDigit(c) == c \in Digits
IsAsciiAlphabetic(c) == c \in Letters

\* every character of the modelled alphabet is ASCII except the two-byte "é", U+00A0,
\* "×" and "÷"
LenUtf8(c) == IF c \in {"é", NoBreakSpace, "×", "÷"} THEN 2 ELSE 1

(***************************************************************************)
(* Radix-10 parse of a numeral buffer DIGIT+ ('.' DIGIT+)?                 *)
(***************************************************************************)
RECURSIVE Mantissa(_, _)
Mantissa(buffer, acc) ==
    IF buffer = <<>> THEN acc
    ELSE IF Head(buffer) = "." THEN Mantissa(Tail(buffer), acc)
    ELSE Mantissa(Tail(buffer), 10 * acc + DigitVal(Head(buffer)))

RECURSIVE FracDigits(_)
FracDigits(buffer) ==
    IF buffer = <<>> THEN 0
    ELSE IF Head(buffer) = "." THEN Len(buffer) - 1
    ELSE FracDigits(Tail(buffer))

\* the radix-10 parse that stops at the decimal point
RECURSIVE IntegerDigits(_)
IntegerDigits(buffer) ==
    IF buffer = <<>> \/ Head(buffer) = "." THEN <<>>
    ELSE <<Head(buffer)>> \o IntegerDigits(Tail(buffer))

FromStrRadixIntegerOnly(buffer) == Rat(Mantissa(IntegerDigits(buffer), 0), 1)

FromStrRadix(buffer) == Rat(Mantissa(buffer, 0), IntPow(10, FracDigits(buffer)))

(***************************************************************************)
(* Lexer finite-state machine (lexer/fsm.rs)                               *)
(***************************************************************************)
FSMContextNew(text) ==
    [input |-> IF text = <<>> THEN <<>> ELSE Tail(text),
     current_char |-> IF text = <<>> THEN NoChar ELSE Head(text),
     position |-> 0,
     buffer |-> <<>>]

\* advance that counts characters and not bytes
CtxAdvanceByChar(ctx) ==
    IF ctx.current_char # NoChar
    THEN [ctx EXCEPT !.position = @ + 1,
                     !.current_char = IF ctx.input = <<>> THEN NoChar ELSE Head(ctx.input),
                     !.input = IF ctx.input = <<>> THEN <<>> ELSE Tail(ctx.input)]
    ELSE ctx

CtxAdvance(ctx) ==
    IF ctx.current_char # NoChar
    THEN [ctx EXCEPT !.position = @ + LenUtf8(ctx.current_char),
                     !.current_char = IF ctx.input = <<>> THEN NoChar ELSE Head(ctx.input),
                     !.input = IF ctx.input = <<>> THEN <<>> ELSE Tail(ctx.input)]
    ELSE ctx

Push(ctx) == [ctx EXCEPT !.buffer = Append(@, ctx.current_char)]

LexOk(token, ctx) == [ok |-> TRUE, token |-> token, fsm |-> ctx]
LexErr(e) == [ok |-> FALSE, err |-> e]

UnexpectedChar(c, position) == <<"UnexpectedChar", c, position>>
InvalidNumber(text, position) == <<"InvalidNumber", text, position>>

RECURSIVE DecimalDigits(_)
DecimalDigits(ctx) ==
    IF ctx.current_char # NoChar /\ IsAsciiDigit(ctx.current_char)
    THEN DecimalDigits(CtxAdvance(Push(ctx)))
    ELSE ctx

\* DecimalPart::collect without the check that a digit followed the point
DecimalPartCollectAcceptEmpty(ctx0) ==
    LET ctx == DecimalDigits(ctx0)
    IN  LexOk(TNumber(FromStrRadix(ctx.buffer)), ctx)

DecimalPartCollect(ctx0) ==
    LET initial_len == Len(ctx0.buffer)
        ctx == DecimalDigits(ctx0)
    IN  IF Len(ctx.buffer) = initial_len
        THEN LexErr(InvalidNumber(ctx.buffer, ctx.position))
        ELSE LexOk(TNumber(FromStrRadix(ctx.buffer)), ctx)

RECURSIVE IntegerPartLoop(_)
IntegerPartLoop(ctx) ==
    LET c == ctx.current_char IN
    IF c # NoChar /\ IsAsciiDigit(c) THEN IntegerPartLoop(CtxAdvance(Push(ctx)))
    ELSE IF c = "." THEN DecimalPartCollect(CtxAdvance(Push(ctx)))
    ELSE LexOk(TNumber(FromStrRadix(ctx.buffer)), ctx)

IntegerPartCollect(ctx) == IntegerPartLoop([ctx EXCEPT !.buffer = <<>>])

RECURSIVE InIdentifierLoop(_)
InIdentifierLoop(ctx) ==
    LET c == ctx.current_char IN
    IF c = NoChar \/ (~IsAsciiAlphabetic(c) /\ ~IsAsciiDigit(c) /\ c # "_")
    THEN LexOk(TIdentifier(ctx.buffer), ctx)
    ELSE InIdentifierLoop(CtxAdvance(Push(ctx)))

InIdentifierCollect(ctx) == InIdentifierLoop([ctx EXCEPT !.buffer = <<>>])

RECURSIVE StartNextToken(_)
StartNextToken(ctx) ==
    LET c == ctx.current_char IN
    IF c = NoChar THEN LexOk(TEof, ctx)
    ELSE IF IsWhitespace(c) THEN StartNextToken(CtxAdvance(ctx))
    ELSE IF IsAsciiDigit(c) THEN IntegerPartCollect(ctx)
    ELSE IF IsAsciiAlphabetic(c) THEN InIdentifierCollect(ctx)
    ELSE IF OperatorGet(c) # None THEN LexOk(TOperator(OperatorGet(c)[2]), CtxAdvance(ctx))
    ELSE IF PunctuationGet(c) # None THEN LexOk(TPunctuation(PunctuationGet(c)[2]), CtxAdvance(ctx))
    ELSE LexErr(UnexpectedChar(c, ctx.position))

(***************************************************************************)
(* Lexer iterator (lexer/mod.rs).  fsm is None once the lexer has yielded  *)
(* an error or reached the end of input.                                   *)
(***************************************************************************)
LexerNew(text) == Some(FSMContextNew(text))

\* next() that puts the machine back after an error
LexerNextKeepFsm(fsm) ==
    IF fsm = None THEN [item |-> None, fsm |-> None]
    ELSE LET r == StartNextToken(fsm[2]) IN
         IF r.ok
         THEN IF r.token = TEof
              THEN [item |-> None, fsm |-> None]
              ELSE [item |-> Some(<<"Ok", r.token>>), fsm |-> Some(r.fsm)]
         ELSE [item |-> Some(<<"Err", r.err>>), fsm |-> Some(CtxAdvance(fsm[2]))]

LexerNext(fsm) ==
    IF fsm = None THEN [item |-> None, fsm |-> None]
    ELSE LET r == StartNextToken(fsm[2]) IN
         IF r.ok
         THEN IF r.token = TEof
              THEN [item |-> None, fsm |-> None]
              ELSE [item |-> Some(<<"Ok", r.token>>), fsm |-> Some(r.fsm)]
         ELSE [item |-> Some(<<"Err", r.err>>), fsm |-> None]

\* the items the iterator yields until it first returns None
RECURSIVE LexerCollect(_)
LexerCollect(fsm) ==
    LET n == LexerNext(fsm) IN
    IF n.item = None THEN <<>> ELSE <<n.item[2]>> \o LexerCollect(n.fsm)

(***************************************************************************)
(* AST (parser/ast.rs)                                                     *)
(***************************************************************************)
ENumber(n) == <<"Number", n>>
EVariable(v) == <<"Variable", v>>
EUnary(op, e) == <<"Unary", op, e>>
EBinary(l, op, r) == <<"Binary", l, op, r>>
ECall(f, a) == <<"Call", f, a>>

SAssignment(v, e) == <<"Assignment", v, e>>
SExpression(e) == <<"Expression", e>>
SEmpty == <<"Empty">>

\* TryFrom<Operator> for UnaryOp
UnaryOpTryFrom(op) ==
    CASE op = "Plus" -> Ok("Positive")
      [] op = "Minus" -> Ok("Negative")
      [] OTHER -> Err(<<"UnexpectedToken", TOperator(op)>>)

UnaryApply(unary_op, a) == IF unary_op = "Negative" THEN RatSub(Zero, a) ELSE a

(***************************************************************************)
(* Parser (parser/mod.rs).  The Peekable<Lexer> is the sequence of items   *)
(* the lexer yields together with the index of the next item; a parsing    *)
(* function returns [ok, val, pos], val being the error when ok is FALSE.  *)
(***************************************************************************)
POk(v, pos) == [ok |-> TRUE, val |-> v, pos |-> pos]
PErr(e) == [ok |-> FALSE, val |-> e, pos |-> 0]

UnexpectedEnd == <<"UnexpectedEnd">>
UnexpectedToken(tok) == <<"UnexpectedToken", tok>>
LexerError(e) == <<"LexerError", e>>

\* Ok(None) at the end of the stream, Ok(Some(token)), or the lexer's error
ParserPeek(items, pos) ==
    IF pos > Len(items) THEN Ok(None)
    ELSE IF items[pos][1] = "Err" THEN Err(LexerError(items[pos][2]))
    ELSE Ok(Some(items[pos][2]))

ParserAdvance(items, pos) ==
    IF pos > Len(items) THEN PErr(UnexpectedEnd)
    ELSE IF items[pos][1] = "Err" THEN PErr(LexerError(items[pos][2]))
    ELSE POk(items[pos][2], pos + 1)

\* the ? operator: an error returns at once, a success continues with its value
Try(r, Continue(_)) == IF ~r.ok THEN r ELSE Continue(r)

ParserExpect(items, pos, token) ==
    Try(ParserAdvance(items, pos), LAMBDA next_token :
        IF next_token.val = token THEN POk(<<>>, next_token.pos)
        ELSE PErr(UnexpectedToken(next_token.val)))

RECURSIVE ParseExpression(_, _, _, _)
RECURSIVE ExpressionLoop(_, _, _, _)
RECURSIVE ParsePrimary(_, _, _)
RECURSIVE ParseParenthesised(_, _)

\* parse_primary, LeftParenthesis arm without the closing expect
ParseParenthesisedNoExpect(items, pos) ==
    Try(ParserAdvance(items, pos), LAMBDA next_token :
        ParseExpression(items, next_token.pos, next_token.val, 0))

\* parse_primary, LeftParenthesis arm; pos is just after the parenthesis
ParseParenthesised(items, pos) ==
    Try(ParserAdvance(items, pos), LAMBDA next_token :
    Try(ParseExpression(items, next_token.pos, next_token.val, 0), LAMBDA result :
    Try(ParserExpect(items, result.pos, TPunctuation("RightParenthesis")), LAMBDA e :
        POk(result.val, e.pos))))

\* parse_primary, Identifier arm whose call argument is one primary between parentheses
ParseIdentifierPrimaryArgument(items, pos, var_name) ==
    Try(ParserPeek(items, pos), LAMBDA pk :
        IF pk.val # None /\ IsPunct(pk.val[2], "LeftParenthesis")
        THEN Try(ParserAdvance(items, pos), LAMBDA left_parenthesis :
             Try(ParserAdvance(items, left_parenthesis.pos), LAMBDA next_token :
             Try(ParsePrimary(items, next_token.pos, next_token.val), LAMBDA argument :
             Try(ParserExpect(items, argument.pos, TPunctuation("RightParenthesis")), LAMBDA e :
                 POk(ECall(var_name, argument.val), e.pos)))))
        ELSE POk(EVariable(var_name), pos))

\* parse_primary, Identifier arm
ParseIdentifier(items, pos, var_name) ==
    Try(ParserPeek(items, pos), LAMBDA pk :
        IF pk.val # None /\ IsPunct(pk.val[2], "LeftParenthesis")
        THEN Try(ParserAdvance(items, pos), LAMBDA left_parenthesis :
             Try(ParsePrimary(items, left_parenthesis.pos, left_parenthesis.val), LAMBDA argument :
                 POk(ECall(var_name, argument.val), argument.pos)))
        ELSE POk(EVariable(var_name), pos))

\* leading Plus or Minus arm whose operand is a whole expression
ParseUnaryWholeExpression(items, pos, operator) ==
    Try(ParserAdvance(items, pos), LAMBDA next_token :
    Try(ParseExpression(items, next_token.pos, next_token.val, 0), LAMBDA operand :
    Try(UnaryOpTryFrom(operator), LAMBDA unary :
        POk(EUnary(unary.val, operand.val), operand.pos))))

\* parse_primary, leading Plus or Minus arm
ParseUnary(items, pos, operator) ==
    Try(ParserAdvance(items, pos), LAMBDA next_token :
    Try(ParsePrimary(items, next_token.pos, next_token.val), LAMBDA operand :
    Try(UnaryOpTryFrom(operator), LAMBDA unary :
        POk(EUnary(unary.val, operand.val), operand.pos))))

\* parse_primary whose Identifier arm is always a Variable
ParsePrimaryNoCall(items, pos, first) ==
    CASE first[1] = "Number" -> POk(ENumber(first[2]), pos)
      [] first[1] = "Identifier" -> POk(EVariable(first[2]), pos)
      [] IsPunct(first, "LeftParenthesis") -> ParseParenthesised(items, pos)
      [] first[1] = "Operator" /\ first[2] \in {"Plus", "Minus"} -> ParseUnary(items, pos, first[2])
      [] OTHER -> PErr(UnexpectedToken(first))

ParsePrimary(items, pos, first) ==
    CASE first[1] = "Number" -> POk(ENumber(first[2]), pos)
      [] first[1] = "Identifier" -> ParseIdentifier(items, pos, first[2])
      [] IsPunct(first, "LeftParenthesis") -> ParseParenthesised(items, pos)
      [] first[1] = "Operator" /\ first[2] \in {"Plus", "Minus"} -> ParseUnary(items, pos, first[2])
      [] OTHER -> PErr(UnexpectedToken(first))

NextMinPrec(operator) ==
    IF Associativity(operator) = "Left" THEN Priority(operator) + 1 ELSE Priority(operator)

\* parse_expression, Operator arm of the loop: fold one operator and its right side
ParseBinary(items, pos, primary, operator, min_precedence) ==
    Try(ParserAdvance(items, pos), LAMBDA consumed :
    Try(ParserAdvance(items, consumed.pos), LAMBDA token_after_operator :
    Try(ParseExpression(items, token_after_operator.pos, token_after_operator.val,
                        NextMinPrec(operator)), LAMBDA after_operator :
        ExpressionLoop(items, after_operator.pos,
                       EBinary(primary, operator, after_operator.val), min_precedence))))

\* the loop of parse_expression; primary is the accumulated left side
ExpressionLoop(items, pos, primary, min_precedence) ==
    Try(ParserPeek(items, pos), LAMBDA pk :
        IF pk.val = None THEN POk(primary, pos)
        ELSE IF pk.val[2][1] = "Operator"
        THEN IF Priority(pk.val[2][2]) < min_precedence THEN POk(primary, pos)
             ELSE ParseBinary(items, pos, primary, pk.val[2][2], min_precedence)
        ELSE IF IsPunct(pk.val[2], "Semicolon") THEN POk(primary, pos)
        ELSE IF IsPunct(pk.val[2], "RightParenthesis") THEN POk(primary, pos)
        ELSE PErr(UnexpectedToken(pk.val[2])))

ParseExpression(items, pos, first, min_precedence) ==
    Try(ParsePrimary(items, pos, first), LAMBDA primary :
        ExpressionLoop(items, primary.pos, primary.val, min_precedence))

ParseAssignment(items, pos, var_name) ==
    Try(ParserExpect(items, pos, TPunctuation("Assignment")), LAMBDA e :
    Try(ParserAdvance(items, e.pos), LAMBDA first_expression_token :
    Try(ParseExpression(items, first_expression_token.pos, first_expression_token.val, 0),
        LAMBDA x : POk(SAssignment(var_name, x.val), x.pos))))

\* parse_statement that never looks past the first token
ClassifyStatementNoLookahead(items, pos, token) ==
    IF IsPunct(token, "Semicolon") THEN POk(SEmpty, pos)
    ELSE Try(ParseExpression(items, pos, token, 0), LAMBDA x :
             POk(SExpression(x.val), x.pos))

\* parse_statement once the first token is consumed
ClassifyStatement(items, pos, token) ==
    IF token[1] = "Identifier"
    THEN Try(ParserPeek(items, pos), LAMBDA pk :
             IF pk.val # None /\ IsPunct(pk.val[2], "Assignment")
             THEN ParseAssignment(items, pos, token[2])
             ELSE Try(ParseExpression(items, pos, token, 0), LAMBDA x :
                      POk(SExpression(x.val), x.pos)))
    ELSE IF IsPunct(token, "Semicolon") THEN POk(SEmpty, pos)
    ELSE Try(ParseExpression(items, pos, token, 0), LAMBDA x :
             POk(SExpression(x.val), x.pos))

ParseStatement(items, pos) ==
    Try(ParserAdvance(items, pos), LAMBDA a : ClassifyStatement(items, a.pos, a.val))

RECURSIVE ProgramLoop(_, _, _)
\* the loop of parse_program without the expect after a statement
ProgramLoopNoSemicolon(items, pos, statements) ==
    Try(ParserPeek(items, pos), LAMBDA pk :
        IF pk.val = None THEN Ok(statements)
        ELSE Try(ParseStatement(items, pos), LAMBDA statement :
                 ProgramLoop(items, statement.pos, Append(statements, statement.val))))

ProgramLoop(items, pos, statements) ==
    Try(ParserPeek(items, pos), LAMBDA pk :
        IF pk.val = None THEN Ok(statements)
        ELSE Try(ParseStatement(items, pos), LAMBDA statement :
                 IF statement.val # SEmpty
                 THEN Try(ParserExpect(items, statement.pos, TPunctuation("Semicolon")),
                          LAMBDA e : ProgramLoop(items, e.pos, Append(statements, statement.val)))
                 ELSE ProgramLoop(items, statement.pos, Append(statements, statement.val))))

ParseResult(r) == [ok |-> r.ok, val |-> r.val]

\* Parser::new(text).parse_program()
ParseProgram(text) == ParseResult(ProgramLoop(LexerCollect(LexerNew(text)), 1, <<>>))

(***************************************************************************)
(* Evaluator (evaluator/mod.rs)                                            *)
(***************************************************************************)
UnexpectedError == <<"UnexpectedError">>
ParserError(e) == <<"ParserError", e>>
OperationFailed(msg) == <<"OperationFailed", msg>>
UndefinedVariable(name) == <<"UndefinedVariable", name>>
UnknownFunction(name) == <<"UnknownFunction", name>>

EmptyEnv == [n \in {} |-> Zero]
EnvInsert(e, name, value) == [n \in DOMAIN e \cup {name} |-> IF n = name THEN value ELSE e[n]]

\* Operator::apply: the operator's arithmetic, which may fail with a message
OperatorApply(operator, a, b) ==
    CASE operator = "Plus" -> Ok(RatAdd(a, b))
      [] operator = "Minus" -> Ok(RatSub(a, b))
      [] operator = "Star" -> Ok(RatMul(a, b))
      [] operator = "Slash" ->
            IF b[1] = 0 THEN Err("division by zero") ELSE Ok(RatDiv(a, b))
      [] operator = "Caret" ->
            IF b[2] # 1 THEN Err("fractional exponent")
            ELSE IF a[1] = 0 /\ b[1] <= 0 THEN Err("zero to a non-positive power")
            ELSE Ok(RatPow(a, b))

\* DefaultBuiltins::constants: pi and e, truncated to five decimals
DefaultBuiltinsConstants ==
    [name \in {<<"p", "i">>, <<"e">>} |->
        IF name = <<"p", "i">> THEN Rat(314159, 100000) ELSE Rat(271828, 100000)]

NameSqrt == <<"s", "q", "r", "t">>

\* the builtin capability restricted to what the rationals can express: "sqrt" is the
\* square root and any other name is unknown (sin, cos, tan, exp, ln and deg2rad of
\* DefaultBuiltins have no rational value and are left out)
BuiltinCall(name, arg) == IF name = NameSqrt THEN Some(RatSqrt(arg)) ELSE None

EnvGetOrZero(e, var) == IF var \in DOMAIN e THEN Ok(e[var]) ELSE Ok(Zero)

\* self.env.get(&var).ok_or(UndefinedVariable(var)).cloned()
EnvGet(e, var) == IF var \in DOMAIN e THEN Ok(e[var]) ELSE Err(UndefinedVariable(var))

DispatchAsVariable(func_name, argument) ==
    LET r == BuiltinCall(func_name, argument) IN
    IF r = None THEN Err(UndefinedVariable(func_name)) ELSE Ok(argument)

\* self.builtins.call(&func_name, argument).ok_or_else(|| UnknownFunction(func_name))
Dispatch(func_name, argument) ==
    LET r == BuiltinCall(func_name, argument) IN
    IF r = None THEN Err(UnknownFunction(func_name)) ELSE Ok(r[2])

RECURSIVE EvalExpression(_, _)
EvalExpression(e, expression) ==
    CASE expression[1] = "Number" -> Ok(expression[2])
      [] expression[1] = "Variable" -> EnvGet(e, expression[2])
      [] expression[1] = "Unary" ->
            LET a == EvalExpression(e, expression[3]) IN
            IF ~a.ok THEN a ELSE Ok(UnaryApply(expression[2], a.val))
      [] expression[1] = "Binary" ->
            LET a == EvalExpression(e, expression[2]) IN
            IF ~a.ok THEN a
            ELSE LET b == EvalExpression(e, expression[4]) IN
                 IF ~b.ok THEN b
                 ELSE LET r == OperatorApply(expression[3], a.val, b.val) IN
                      IF r.ok THEN r ELSE Err(OperationFailed(r.val))
      [] expression[1] = "Call" ->
            LET argument == EvalExpression(e, expression[3]) IN
            IF ~argument.ok THEN argument ELSE Dispatch(expression[2], argument.val)

\* the Environment after the statement and the statement's result
EvalStatementClearOnError(e, statement) ==
    CASE statement[1] = "Assignment" ->
            LET expr_res == EvalExpression(e, statement[3]) IN
            IF ~expr_res.ok THEN [env |-> EmptyEnv, res |-> expr_res]
            ELSE [env |-> EnvInsert(e, statement[2], expr_res.val), res |-> Ok(None)]
      [] statement[1] = "Expression" ->
            LET r == EvalExpression(e, statement[2]) IN
            [env |-> IF r.ok THEN e ELSE EmptyEnv, res |-> IF r.ok THEN Ok(Some(r.val)) ELSE r]
      [] statement[1] = "Empty" -> [env |-> e, res |-> Ok(None)]

\* eval_statement that also stores the value of an Expression statement under "ans"
EvalStatementBindsAns(e, statement) ==
    CASE statement[1] = "Assignment" ->
            LET expr_res == EvalExpression(e, statement[3]) IN
            IF ~expr_res.ok THEN [env |-> e, res |-> expr_res]
            ELSE [env |-> EnvInsert(e, statement[2], expr_res.val), res |-> Ok(None)]
      [] statement[1] = "Expression" ->
            LET r == EvalExpression(e, statement[2]) IN
            [env |-> IF r.ok THEN EnvInsert(e, <<"a", "n", "s">>, r.val) ELSE e,
             res |-> IF r.ok THEN Ok(Some(r.val)) ELSE r]
      [] statement[1] = "Empty" -> [env |-> e, res |-> Ok(None)]

\* eval_statement that binds the target of an Assignment before evaluating the right side
EvalStatementBindFirst(e, statement) ==
    CASE statement[1] = "Assignment" ->
            LET expr_res == EvalExpression(EnvInsert(e, statement[2], Zero), statement[3]) IN
            IF ~expr_res.ok THEN [env |-> EnvInsert(e, statement[2], Zero), res |-> expr_res]
            ELSE [env |-> EnvInsert(e, statement[2], expr_res.val), res |-> Ok(None)]
      [] statement[1] = "Expression" ->
            LET r == EvalExpression(e, statement[2]) IN
            [env |-> e, res |-> IF r.ok THEN Ok(Some(r.val)) ELSE r]
      [] statement[1] = "Empty" -> [env |-> e, res |-> Ok(None)]

EvalStatement(e, statement) ==
    CASE statement[1] = "Assignment" ->
            LET expr_res == EvalExpression(e, statement[3]) IN
            IF ~expr_res.ok THEN [env |-> e, res |-> expr_res]
            ELSE [env |-> EnvInsert(e, statement[2], expr_res.val), res |-> Ok(None)]
      [] statement[1] = "Expression" ->
            LET r == EvalExpression(e, statement[2]) IN
            [env |-> e, res |-> IF r.ok THEN Ok(Some(r.val)) ELSE r]
      [] statement[1] = "Empty" -> [env |-> e, res |-> Ok(None)]

\* the for loop of Evaluator::parse: res is overwritten by every statement
RECURSIVE EvalLoopKeepValue(_, _, _)
EvalLoopKeepValue(statements, e, r) ==
    IF statements = <<>> THEN [env |-> e, res |-> r]
    ELSE LET s == EvalStatement(e, Head(statements)) IN
         EvalLoopKeepValue(Tail(statements), s.env,
                           IF s.res = Ok(None) /\ r.ok THEN r ELSE s.res)

RECURSIVE EvalLoop(_, _, _)
EvalLoop(statements, e, r) ==
    IF statements = <<>> THEN [env |-> e, res |-> r]
    ELSE LET s == EvalStatement(e, Head(statements)) IN
         EvalLoop(Tail(statements), s.env, s.res)

ParseReturn(l, parsed) == [env |-> l.env, res |-> l.res, program |-> parsed]

\* Evaluator::parse after parse_program has returned
EvaluateProgram(e, parsed) ==
    IF ~parsed.ok
    THEN [env |-> e, res |-> Err(ParserError(parsed.val)), program |-> parsed]
    ELSE ParseReturn(EvalLoop(parsed.val, e, Err(UnexpectedError)), parsed)

\* Evaluator::parse: the Environment and the result when it returns
EvaluatorParse(e, text) == EvaluateProgram(e, ParseProgram(text))

(***************************************************************************)
(* Input lines                                                             *)
(***************************************************************************)
NameX == <<"x">>
NameY == <<"y">>
NameFoo == <<"f", "o", "o">>

TxAssign5 == <<"x", " ", "=", " ", "5", ";">>
TxAssign1 == <<"x", "=", "1", ";">>
TxY == <<" ", "y", ";">>
TxXPlus1 == <<" ", "x", " ", "+", " ", "1", ";">>
TxEmpty == <<";">>
TxFive == <<"5", ";">>
TxFoo == <<"f", "o", "o", "(", "1", ")", ";">>
TxSqrt == <<"s", "q", "r", "t", "(", "4", ")", ";">>
TxDivZero == <<"1", "/", "0", ";">>
TxExit == <<"e", "x", "i", "t">>

StmtTexts == {TxAssign5, TxAssign1, TxY, TxXPlus1, TxEmpty, TxFive, TxFoo, TxSqrt, TxDivZero}

RECURSIVE Lines(_)
Lines(n) ==
    IF n = 0 THEN {<<>>}
    ELSE LET shorter == Lines(n - 1) IN
         shorter \cup {l \o t : l \in {k \in shorter : TRUE}, t \in StmtTexts}

\* lines of at most MaxStmts statements
SessionLines == Lines(MaxStmts)

OperandNames == <<<<"a">>, <<"b">>, <<"c">>, <<"d">>, <<"e">>, <<"f">>>>
OpChars == {"+", "-", "*", "/", "^"}

\* the k-th operand of a generated expression: a variable, or the numeral 1
OperandText(kind, k) == IF kind = "var" THEN OperandNames[k] ELSE <<"1">>
OperandExpr(kind, k) == IF kind = "var" THEN EVariable(OperandNames[k]) ELSE ENumber(Num(1))

\* operand 1, ops[1], operand 2, ..., with "(" before operand open and ")" after
\* operand close (0: none), from operand k on
RECURSIVE ExprTextFrom(_, _, _, _, _)
ExprTextFrom(kind, ops, open, close, k) ==
    LET here == (IF open = k THEN <<"(">> ELSE <<>>) \o OperandText(kind, k)
                \o (IF close = k THEN <<")">> ELSE <<>>)
    IN  IF k > Len(ops) THEN here \o <<";">>
        ELSE here \o <<ops[k]>> \o ExprTextFrom(kind, ops, open, close, k + 1)

ExprText(kind, ops, open, close) == ExprTextFrom(kind, ops, open, close, 1)

OpSeqs(n) == UNION {[1..m -> OpChars] : m \in 0..n}

Ex234 == <<"(", "2", " ", "+", " ", "3", ")", " ", "*", " ", "4", ";">>
ExPrecedence == <<"2", " ", "+", " ", "3", " ", "*", " ", "4", ";">>
ExCaret == <<"2", " ", "^", " ", "3", " ", "^", " ", "2", ";">>
ExAddSub == <<"1", " ", "+", " ", "2", " ", "-", " ", "3", ";">>
ExUnclosed == <<"(", "2", " ", "+", " ", "3", ";">>

\* where the parentheses go: nowhere, around operands open..close, or an opening
\* parenthesis before operand open that is never closed (close = 0)
ParenPlaces ==
    {<<0, 0>>} \cup
    {place \in (1..(MaxOps + 1)) \X (0..(MaxOps + 1)) : place[2] = 0 \/ place[2] > place[1]}

\* expressions of at most MaxOps binary operators with at most one parenthesis pair,
\* closed or left open, and the examples of the specification
ExprLines ==
    {ExprText(kind, ops, place[1], place[2]) :
        kind \in {"var", "num"}, ops \in OpSeqs(MaxOps), place \in ParenPlaces}
    \cup {Ex234, ExPrecedence, ExCaret, ExAddSub, ExUnclosed}

IsBlank(line) == \A i \in 1..Len(line) : IsWhitespace(line[i])

RECURSIVE TrimStart(_)
TrimStart(line) ==
    IF line # <<>> /\ IsWhitespace(Head(line)) THEN TrimStart(Tail(line)) ELSE line

RECURSIVE TrimEnd(_)
TrimEnd(line) ==
    IF line # <<>> /\ IsWhitespace(line[Len(line)])
    THEN TrimEnd(SubSeq(line, 1, Len(line) - 1)) ELSE line

Trim(line) == TrimEnd(TrimStart(line))

(***************************************************************************)
(* The front end (rust-calc/src/main.rs)                                   *)
(***************************************************************************)
NoProgram == Err(<<"NotParsed">>)
NoOperation == <<>>
NoOutcome == Err(<<"NotCalled">>)
NoResult == Err(<<"NotCalled">>)

Init ==
    /\ pc = "main"
    /\ mode = "none"
    /\ input = <<>>
    /\ env = EmptyEnv
    /\ envBefore = EmptyEnv
    /\ program = NoProgram
    /\ res = NoResult
    /\ erred = FALSE
    /\ lexPc = "idle"
    /\ lexInput = <<>>
    /\ lexer = None
    /\ yielded = <<>>
    /\ nones = 0
    /\ calcPc = "idle"
    /\ calcExpression = <<>>
    /\ parsed_expression = None
    /\ operation = NoOperation
    /\ outcome = NoOutcome

\* main with no arguments: enter the REPL
MainRepl ==
    /\ pc = "main"
    /\ pc' = "readline"
    /\ mode' = "repl"
    /\ UNCHANGED <<input, env, envBefore, program, res, erred, lexVars, mathVars>>

\* main with arguments: the joined arguments are the one input
MainArgs(lines) ==
    /\ pc = "main"
    /\ \E line \in lines :
        /\ input' = line
        /\ pc' = "eval"
        /\ mode' = "args"
    /\ UNCHANGED <<env, envBefore, program, res, erred, lexVars, mathVars>>

\* repl: a blank line is skipped
ReplBlank ==
    /\ pc = "readline"
    /\ \E line \in {<<>>, <<" ">>} :
        /\ IsBlank(Trim(line))
        /\ UNCHANGED vars

\* repl: "exit" leaves the loop
ReplExit ==
    /\ pc = "readline"
    /\ \E line \in {TxExit, <<" ">> \o TxExit} :
        /\ Trim(line) = TxExit
        /\ pc' = "exited"
    /\ UNCHANGED <<mode, input, env, envBefore, program, res, erred, lexVars, mathVars>>

\* repl: any other line goes to the evaluator
ReplLine(lines) ==
    /\ pc = "readline"
    /\ \E line \in lines :
        /\ ~IsBlank(Trim(line))
        /\ Trim(line) # TxExit
        /\ input' = line
        /\ pc' = "eval"
    /\ UNCHANGED <<mode, env, envBefore, program, res, erred, lexVars, mathVars>>

\* evaluator.parse(&input)
Parse ==
    /\ pc = "eval"
    /\ \E r \in {EvaluatorParse(env, input)} :
        /\ env' = r.env
        /\ res' = r.res
        /\ program' = r.program
        /\ erred' = (erred \/ ~r.res.ok)
    /\ envBefore' = env
    /\ pc' = "show"
    /\ UNCHANGED <<mode, input, lexVars, mathVars>>

\* the result is printed; the REPL reads the next line, the one-shot run ends
ShowResult ==
    /\ pc = "show"
    /\ pc' = IF mode = "repl" THEN "readline" ELSE "exited"
    /\ input' = <<>>
    /\ program' = NoProgram
    /\ res' = NoResult
    /\ envBefore' = env
    /\ UNCHANGED <<mode, env, erred, lexVars, mathVars>>

Next ==
    \/ MainRepl
    \/ MainArgs(SessionLines)
    \/ ReplBlank
    \/ ReplExit
    \/ ReplLine(SessionLines)
    \/ Parse
    \/ ShowResult

\* a session over lines of statements
Spec == Init /\ [][Next]_vars

NextExpr ==
    \/ MainRepl
    \/ MainArgs(ExprLines)
    \/ ReplBlank
    \/ ReplExit
    \/ ReplLine(ExprLines)
    \/ Parse
    \/ ShowResult

\* a session over lines holding one expression statement
SpecExpr == Init /\ [][NextExpr]_vars

(***************************************************************************)
(* Lines of statement bodies, each followed by a semicolon, by nothing or  *)
(* by a closing parenthesis; calls; a named constant; empty input.         *)
(***************************************************************************)
BodyExpression == <<" ", "2", " ", "+", " ", "3">>
BodyAssignment == <<" ", "x", " ", "=", " ", "5">>
BodyVariable == <<" ", "y">>
BodyEmpty == <<>>
BodyCutShort == <<" ", "2", " ", "+">>

WellFormedBodies == {BodyExpression, BodyAssignment, BodyVariable, BodyEmpty}
Bodies == WellFormedBodies \cup {BodyCutShort}

Terminators == {<<";">>, <<>>, <<" ", ")">>}

\* sequences of at most n pairs <<body, what follows it>>
ProgShapes(bodies, n) == UNION {[1..m -> bodies \X Terminators] : m \in 0..n}

RECURSIVE ShapeText(_)
ShapeText(shape) ==
    IF shape = <<>> THEN <<>>
    ELSE Head(shape)[1] \o Head(shape)[2] \o ShapeText(Tail(shape))

NameF == <<"f">>
NameG == <<"g">>
NamePi == <<"p", "i">>
NameE == <<"e">>

\* what may stand between the parentheses of a call
ArgTexts ==
    {<<"1", "+", "2">>, <<"2", " ", "+", " ", "3">>, <<"g", "(", "1", ")">>, <<"1">>,
     <<"x">>, <<"-", "1">>, <<"(", "1", ")">>, <<"1", "+", "2", "*", "3">>,
     <<"2", "^", "x", "^", "1">>, <<"g", "(", "1", "-", "x", ")", "*", "2">>}

CallText(name, argument) == name \o <<"(">> \o argument \o <<")", ";">>

TxF12 == CallText(NameF, <<"1", "+", "2">>)
TxSqrt23 == CallText(NameSqrt, <<"2", " ", "+", " ", "3">>)
TxFG1 == CallText(NameF, <<"g", "(", "1", ")">>)
TxPi == <<"p", "i", ";">>
TxAssignThenCutShort == <<"x", " ", "=", " ", "5", ";", " ", "2", " ", "+">>

TxTwoAssignments ==
    <<"x", " ", "=", " ", "1", ";", " ", "y", " ", "=", " ", "x", " ", "+", " ", "2", ";">>

CallLines == {CallText(name, argument) : name \in {NameF, NameSqrt}, argument \in ArgTexts}

ProgLines ==
    {ShapeText(shape) : shape \in ProgShapes(Bodies, MaxProgPieces)}
    \cup CallLines
    \cup {TxPi, TxAssignThenCutShort, TxTwoAssignments, <<>>, <<" ">>}

NextProg ==
    \/ MainRepl
    \/ MainArgs(ProgLines)
    \/ ReplBlank
    \/ ReplExit
    \/ ReplLine(ProgLines)
    \/ Parse
    \/ ShowResult

\* a session over lines of terminated and unterminated statements and of calls
SpecProg == Init /\ [][NextProg]_vars

(***************************************************************************)
(* Lines of assignments and of expression statements that read, and may    *)
(* fail on, the Environment.                                               *)
(***************************************************************************)
StAssign5 == <<" ", "x", " ", "=", " ", "5", ";">>
StFlip == <<" ", "x", " ", "=", " ", "1", " ", "-", " ", "x", ";">>
StCopy == <<" ", "y", " ", "=", " ", "x", ";">>
StAssignUnbound == <<" ", "x", " ", "=", " ", "z", ";">>
StAssignDivZero == <<" ", "x", " ", "=", " ", "1", "/", "0", ";">>
StAssignUnknown == <<" ", "y", " ", "=", " ", "f", "o", "o", "(", "x", ")", ";">>
StNegate == <<" ", "-", "x", ";">>
StSum == <<" ", "x", " ", "+", " ", "y", ";">>
StSqrt == <<" ", "s", "q", "r", "t", "(", "x", ")", ";">>
StUnknown == <<" ", "f", "o", "o", "(", "1", ")", ";">>
StDivZero == <<" ", "1", "/", "0", ";">>
StEmpty == <<";">>

EnvStmts ==
    {StAssign5, StFlip, StCopy, StAssignUnbound, StAssignDivZero, StAssignUnknown,
     StNegate, StSum, StSqrt, StUnknown, StDivZero, StEmpty}

TxIncrement == <<"x", " ", "=", " ", "5", ";", " ", "x", " ", "=", " ", "x", " ", "+", " ", "1", ";">>

RECURSIVE EnvLinesOf(_)
EnvLinesOf(n) ==
    IF n = 0 THEN {<<>>}
    ELSE LET shorter == EnvLinesOf(n - 1) IN
         shorter \cup {l \o t : l \in {k \in shorter : TRUE}, t \in EnvStmts}

EnvLines == EnvLinesOf(MaxEnvStmts) \cup {TxIncrement}

NextEnv ==
    \/ MainRepl
    \/ MainArgs(EnvLines)
    \/ ReplBlank
    \/ ReplExit
    \/ ReplLine(EnvLines)
    \/ Parse
    \/ ShowResult

\* a session over lines of assignments and expression statements
SpecEnv == Init /\ [][NextEnv]_vars

(***************************************************************************)
(* A direct consumer of the lexer (lexer/mod.rs): Lexer::new, then next()  *)
(* again and again, also after it has returned None.                       *)
(***************************************************************************)
NumeralDigits == {"0", "7"}

DigitStrings(n) == UNION {[1..m -> NumeralDigits] : m \in 1..n}

Surrounds == {<<>>, <<" ">>, <<"\t">>}

\* DIGIT+ ('.' DIGIT+)? with optional white space around it
NumeralTexts ==
    {before \o whole \o after : before \in Surrounds, whole \in DigitStrings(MaxDigits),
                                after \in Surrounds}
    \cup {before \o whole \o <<".">> \o fraction \o after :
            before \in Surrounds, whole \in DigitStrings(MaxDigits),
            fraction \in DigitStrings(MaxDigits), after \in Surrounds}

LexPieces ==
    {<<"4", "2">>, <<"5", ".">>, <<" ">>, <<NoBreakSpace>>, <<"x">>, <<"+">>, <<";">>,
     <<"&">>, <<"é">>, <<"_">>}

RECURSIVE PieceTexts(_)
PieceTexts(n) ==
    IF n = 0 THEN {<<>>}
    ELSE LET shorter == PieceTexts(n - 1) IN
         shorter \cup {l \o t : l \in {k \in shorter : TRUE}, t \in LexPieces}

LexTexts == NumeralTexts \cup PieceTexts(MaxLexPieces)

\* Lexer::new(input)
LexNew(texts) ==
    /\ lexPc = "idle"
    /\ \E text \in texts :
        /\ lexInput' = text
        /\ lexer' = LexerNew(text)
    /\ lexPc' = "iterating"
    /\ yielded' = <<>>
    /\ nones' = 0
    /\ UNCHANGED <<frontVars, mathVars>>

\* a request that yields its item and leaves the machine where it was
LexNextNoProgress ==
    /\ lexPc = "iterating"
    /\ nones < MaxNones
    /\ \E n \in {LexerNext(lexer)} :
        /\ yielded' = IF n.item = None THEN yielded ELSE Append(yielded, n.item[2])
        /\ nones' = IF n.item = None THEN nones + 1 ELSE nones
    /\ UNCHANGED <<lexer, lexPc, lexInput, frontVars, mathVars>>

\* lexer.next()
LexNext ==
    /\ lexPc = "iterating"
    /\ nones < MaxNones
    /\ \E n \in {LexerNext(lexer)} :
        /\ lexer' = n.fsm
        /\ yielded' = IF n.item = None THEN yielded ELSE Append(yielded, n.item[2])
        /\ nones' = IF n.item = None THEN nones + 1 ELSE nones
    /\ UNCHANGED <<lexPc, lexInput, frontVars, mathVars>>

NextLex ==
    \/ LexNew(LexTexts)
    \/ LexNext

\* a consumer iterating the lexer over one text
SpecLex == Init /\ [][NextLex]_vars

(***************************************************************************)
(* The legacy string-splitting calculator (src/lib.rs): MathExpression and *)
(* MathOperation.  Strings are sequences of characters, vec is the vector  *)
(* parsed_expression holds.  A panic is an outcome of its own.             *)
(***************************************************************************)
all_operators == {"+", "-", "*", "x", "×", "/", "÷", "^", "(", ")"}
operators_by_priority == <<{"^"}, {"*", "x", "×", "/", "÷"}, {"+", "-"}>>

Anyhow(message) == Err(<<"anyhow", message>>)
Panic(message) == [ok |-> FALSE, panic |-> TRUE, val |-> message]
IsPanic(r) == ~r.ok /\ "panic" \in DOMAIN r
IsErr(r) == ~r.ok /\ DOMAIN r = {"ok", "val"}

\* str::len, in bytes
RECURSIVE StrLen(_)
StrLen(s) == IF s = <<>> THEN 0 ELSE LenUtf8(Head(s)) + StrLen(Tail(s))

\* s.len() == 1 && all_operators.contains(&s.chars().next().unwrap())
IsOperatorString(s, operators) == StrLen(s) = 1 /\ s[1] \in operators

\* BigRational::from_dec_str: an optional minus sign, digits, and optionally a point
\* and digits
IsDecimalBody(body) ==
    /\ body # <<>>
    /\ \A i \in 1..Len(body) : body[i] \in Digits \cup {"."}
    /\ Cardinality({i \in 1..Len(body) : body[i] = "."}) <= 1
    /\ body[1] # "."
    /\ body[Len(body)] # "."

FromDecStrUnsigned(body) ==
    IF IsDecimalBody(body) THEN Ok(FromStrRadix(body)) ELSE Anyhow("from_dec_str")

FromDecStr(s) ==
    IF s # <<>> /\ Head(s) = "-"
    THEN Try(FromDecStrUnsigned(Tail(s)), LAMBDA r : Ok(RatSub(Zero, r.val)))
    ELSE FromDecStrUnsigned(s)

RECURSIVE NatText(_)
NatText(n) ==
    IF n < 10 THEN <<DigitSeq[n + 1]>>
    ELSE NatText(n \div 10) \o <<DigitSeq[(n % 10) + 1]>>

\* the digits after the point of rem / d, at most k of them
RECURSIVE FracText(_, _, _)
FracText(rem, d, k) ==
    IF rem = 0 \/ k = 0 THEN <<>>
    ELSE <<DigitSeq[((rem * 10) \div d) + 1]>> \o FracText((rem * 10) % d, d, k - 1)

\* to_dec_string of a value whose decimal expansion ends within MaxFracDigits digits
ToDecString(r) ==
    (IF r[1] < 0 THEN <<"-">> ELSE <<>>)
    \o NatText(Abs(r[1]) \div r[2])
    \o (IF Abs(r[1]) % r[2] = 0 THEN <<>>
        ELSE <<".">> \o FracText(Abs(r[1]) % r[2], r[2], MaxFracDigits))

\* expression.replace(",", ".")
ReplaceCommas(text) == [i \in 1..Len(text) |-> IF text[i] = "," THEN "." ELSE text[i]]

\* the loop over match_indices(all_operators) and the push of what follows the last
\* operator; index and last count characters from 0
RECURSIVE SplitLoop(_, _, _, _)
SplitLoop(expr, index, last, result) ==
    IF index >= Len(expr)
    THEN IF last < Len(expr)
         THEN Append(result, Trim(SubSeq(expr, last + 1, Len(expr))))
         ELSE result
    ELSE IF expr[index + 1] \notin all_operators
    THEN SplitLoop(expr, index + 1, last, result)
    ELSE SplitLoop(expr, index + 1, index + 1,
                   Append(IF last # index
                          THEN Append(result, Trim(SubSeq(expr, last + 1, index)))
                          ELSE result,
                          <<expr[index + 1]>>))

\* vec.remove(i), i counted from 0
VecRemove(vec, i) == SubSeq(vec, 1, i) \o SubSeq(vec, i + 2, Len(vec))
\* vec[i] = s, i counted from 0; out of bounds panics
VecSet(vec, i, s) == [vec EXCEPT ![i + 1] = s]

\* the match on the two consecutive operators vec[i] and vec[i + 1]
ConsecutivePair(vec, i) ==
    CASE vec[i + 1] = <<"-">> /\ vec[i + 2] = <<"+">> ->
            IF i + 2 >= Len(vec) THEN Panic("index out of bounds")
            ELSE Ok(VecRemove(VecSet(vec, i + 2, <<"-">> \o vec[i + 3]), i))
      [] vec[i + 1] = <<"+">> /\ vec[i + 2] = <<"+">> -> Ok(VecRemove(vec, i))
      [] vec[i + 1] = <<"-">> /\ vec[i + 2] = <<"-">> -> Ok(VecSet(VecRemove(vec, i), i, <<"+">>))
      [] vec[i + 1] = <<"*">> /\ vec[i + 2] = <<"*">> -> Ok(VecSet(VecRemove(vec, i), i, <<"^">>))
      [] vec[i + 1] \notin {<<"-">>, <<"+">>} /\ vec[i + 2] = <<"-">> ->
            IF i + 2 >= Len(vec) THEN Panic("index out of bounds")
            ELSE Ok(VecRemove(VecSet(vec, i + 1, <<"-">> \o vec[i + 3]), i + 2))
      [] vec[i + 1] = <<"+">> /\ vec[i + 2] = <<"-">> ->
            IF i + 2 >= Len(vec) THEN Panic("index out of bounds")
            ELSE Ok(VecRemove(VecSet(vec, i + 1, <<"-">> \o vec[i + 3]), i + 2))
      [] OTHER -> Anyhow("These two consecutive operators are not allowed")

\* the while loop of handle_consecutive_operators, i counted from 0;
\* chars().next().unwrap() panics on an empty string
RECURSIVE HandleLoop(_, _)
HandleLoop(vec, i) ==
    IF i >= Len(vec) THEN Ok(vec)
    ELSE IF ~IsOperatorString(vec[i + 1], all_operators) THEN HandleLoop(vec, i + 1)
    ELSE IF i + 1 >= Len(vec) THEN HandleLoop(vec, i + 1)
    ELSE IF vec[i + 2] = <<>> THEN Panic("called Option::unwrap() on a None value")
    ELSE IF vec[i + 2][1] \notin all_operators THEN HandleLoop(vec, i + 1)
    ELSE IF i + 2 < Len(vec) /\ vec[i + 3] = <<>>
    THEN Panic("called Option::unwrap() on a None value")
    ELSE IF i + 2 < Len(vec) /\ vec[i + 3][1] \in all_operators
    THEN Anyhow("3 or more consecutive operators are not allowed")
    ELSE Try(ConsecutivePair(vec, i), LAMBDA r : HandleLoop(r.val, i + 1))

handle_consecutive_operators(vec) == HandleLoop(vec, 0)

\* MathExpression::parse: the expression it stores and the vector, or the failure
MathExpressionParse(text) ==
    [expression |-> Trim(ReplaceCommas(text)),
     parsed |-> handle_consecutive_operators(SplitLoop(Trim(ReplaceCommas(text)), 0, 0, <<>>))]

\* value is an f64: a dyadic rational of at most 53 significant bits (every integer
\* computed here has fewer than 32)
RECURSIVE IsPowerOfTwo(_)
IsPowerOfTwo(n) == n = 1 \/ (n > 1 /\ n % 2 = 0 /\ IsPowerOfTwo(n \div 2))
IsF64(value) == IsPowerOfTwo(value[2])

\* Ok of a result reached through f64 arithmetic, which the model does not compute: some
\* rational within the tolerance of the root-th root of value.  What is computed from
\* it is not computed either.
Approximately(value, root) == [ok |-> FALSE, approximate |-> TRUE, val |-> <<value, root>>]
IsApproximate(r) == ~r.ok /\ "approximate" \in DOMAIN r

\* nth_root: for root 1 and an f64 value the seed is the value itself, the first
\* Newton step returns it, and the loop ends at once
nth_root(value, root) ==
    IF root <= 0 \/ value[1] <= 0
    THEN Anyhow("Invalid operation: n-th root is undefined")
    ELSE IF root = 1 /\ IsF64(value) THEN Ok(value)
    ELSE Approximately(value, root)

\* MathOperation::pow
pow(base, exponent) ==
    IF exponent = Zero
    THEN IF base = Zero THEN Anyhow("Invalid operation: 0^0") ELSE Ok(Num(1))
    ELSE IF base = Zero
    THEN IF exponent[1] < 0
         THEN Anyhow("Invalid operation: cannot raise 0 to negative power")
         ELSE Ok(Num(1))
    ELSE IF exponent[1] < -2147483647 - 1 \/ exponent[1] > 2147483647
    THEN Anyhow("Failed to parse the exponent numer into an integer")
    ELSE nth_root(RatPow(base, Num(exponent[1])), exponent[2])

\* MathOperation::calculate on parsed operands
OperationApply(operator, operand1, operand2) ==
    CASE operator = <<"+">> -> Ok(RatAdd(operand1, operand2))
      [] operator = <<"-">> -> Ok(RatSub(operand1, operand2))
      [] operator \in {<<"*">>, <<"x">>, <<"×">>} -> Ok(RatMul(operand1, operand2))
      [] operator \in {<<"/">>, <<"÷">>} ->
            IF operand2 = Zero THEN Anyhow("Cannot divide by zero")
            ELSE Ok(RatDiv(operand1, operand2))
      [] operator = <<"^">> -> pow(operand1, operand2)
      [] OTHER -> Anyhow("Unknown operator")

\* MathOperation::new followed by calculate
MathOperationCalculate(operator, operand1, operand2) ==
    Try(FromDecStr(operand1), LAMBDA a :
    Try(FromDecStr(operand2), LAMBDA b :
        OperationApply(operator, a.val, b.val)))

\* the while loop of perform_operations for the operators of one priority, i from 0
RECURSIVE PerformLoop(_, _, _)
PerformLoop(vec, operators, i) ==
    IF i >= Len(vec) THEN Ok(vec)
    ELSE IF i + 1 >= Len(vec) \/ ~IsOperatorString(vec[i + 1], operators) \/ i <= 0
    THEN PerformLoop(vec, operators, i + 1)
    ELSE Try(MathOperationCalculate(vec[i + 1], vec[i], vec[i + 2]), LAMBDA partial_result :
             PerformLoop(VecRemove(VecRemove(VecSet(vec, i, ToDecString(partial_result.val)),
                                             i + 1), i - 1),
                         operators, i))

RECURSIVE PerformLevels(_, _)
PerformLevels(vec, level) ==
    IF level > Len(operators_by_priority) THEN Ok(vec)
    ELSE Try(PerformLoop(vec, operators_by_priority[level], 0), LAMBDA r :
             PerformLevels(r.val, level + 1))

IsNonEmpty(s) == s # <<>>

perform_operations(vec) ==
    Try(PerformLevels(vec, 1), LAMBDA r : Ok(SelectSeq(r.val, IsNonEmpty)))

\* MathExpression::calculate: the fields it leaves and what it returns
MathExpressionCalculate(text) ==
    [expression |-> MathExpressionParse(text).expression,
     parsed |-> Try(MathExpressionParse(text).parsed, LAMBDA p : perform_operations(p.val)),
     returned |->
        Try(MathExpressionParse(text).parsed, LAMBDA p :
        Try(perform_operations(p.val), LAMBDA vec :
            IF Len(vec.val) # 1 THEN Anyhow("MathExpression operation performing error")
            ELSE FromDecStr(vec.val[1])))]

\* operands and operator runs of the expressions calculated
LeftOperands == {<<"1", "2", ",", "4">>, <<"6">>}
RightOperands2 == {<<"0", ",", "4">>, <<"0", ",", "5">>, <<"2">>}
RunOperators == {"+", "-", "*", "/"}
Gaps == {<<>>, <<" ">>}

\* one to MaxConsecutive operators
OperatorRuns == UNION {[1..n -> RunOperators] : n \in 1..MaxConsecutive}

RECURSIVE RunText(_, _)
RunText(run, gap) ==
    IF Len(run) = 1 THEN <<run[1]>>
    ELSE <<Head(run)>> \o gap \o RunText(Tail(run), gap)

\* a, the operators of run with gap between each two of them, b
RunExpression(a, run, gap, b) == a \o RunText(run, gap) \o b

LegacyExpressions ==
    {RunExpression(a, run, gap, b) :
        a \in LeftOperands, run \in OperatorRuns, gap \in Gaps, b \in RightOperands2}
    \cup {<<" ", "1", " ", "+", " ", "2", " ">>, <<"2", "*", "*", "3">>, <<"6", "-">>, <<>>}

PowBases == {<<"0">>, <<"2">>, <<"-", "2">>, <<"3">>, <<"0", ".", "5">>}
PowExponents ==
    {<<"0">>, <<"1">>, <<"2">>, <<"3">>, <<"-", "1">>, <<"-", "2">>, <<"0", ".", "5">>}
OperationOperators == {<<"^">>, <<"+">>, <<"/">>, <<"%">>}

\* MathExpression::new(expression)
CalcNew(expressions) ==
    /\ calcPc = "idle"
    /\ \E text \in expressions : calcExpression' = text
    /\ parsed_expression' = None
    /\ outcome' = NoOutcome
    /\ calcPc' = "constructed"
    /\ UNCHANGED <<operation, frontVars, lexVars>>

\* expression.parse()
CalcParse ==
    /\ calcPc = "constructed"
    /\ \E r \in {MathExpressionParse(calcExpression)} :
        /\ calcExpression' = r.expression
        /\ parsed_expression' = IF r.parsed.ok THEN Some(r.parsed.val) ELSE parsed_expression
        /\ outcome' = IF r.parsed.ok THEN Ok(<<>>) ELSE r.parsed
    /\ calcPc' = "parsed"
    /\ UNCHANGED <<operation, frontVars, lexVars>>

\* expression.calculate()
CalcCalculate ==
    /\ calcPc = "constructed"
    /\ \E r \in {MathExpressionCalculate(calcExpression)} :
        /\ calcExpression' = r.expression
        /\ parsed_expression' = IF r.parsed.ok THEN Some(r.parsed.val) ELSE parsed_expression
        /\ outcome' = r.returned
    /\ calcPc' = "calculated"
    /\ UNCHANGED <<operation, frontVars, lexVars>>

\* MathOperation::new(operator, operand1, operand2)?.calculate()
OperationCalculate(operators, operands1, operands2) ==
    /\ calcPc = "idle"
    /\ \E operator \in operators, operand1 \in operands1, operand2 \in operands2 :
        /\ operation' = [operator |-> operator, operand1 |-> operand1, operand2 |-> operand2]
        /\ outcome' = MathOperationCalculate(operator, operand1, operand2)
    /\ calcPc' = "operated"
    /\ UNCHANGED <<calcExpression, parsed_expression, frontVars, lexVars>>

NextLegacy ==
    \/ CalcNew(LegacyExpressions)
    \/ CalcParse
    \/ CalcCalculate
    \/ OperationCalculate(OperationOperators, PowBases, PowExponents)

\* a caller of the legacy calculator: one expression calculated, or one operation
SpecLegacy == Init /\ [][NextLegacy]_vars

(***************************************************************************)
(* Evaluation of a statement list that stops at the first failure: the     *)
(* reading of "the first failing statement" the properties below share.    *)
(***************************************************************************)
StopAt(i, e, r) == [failed |-> TRUE, index |-> i, env |-> e, res |-> r]

RunStep(s, i, e, Continue(_)) == IF ~s.res.ok THEN StopAt(i, e, s.res) ELSE Continue(s)

\* failed: some statement fails; index: the first that does; env: the Environment
\* the statements before it produce; res: its error (or the last result)
RECURSIVE RunToFirstFailure(_, _, _, _)
RunToFirstFailure(statements, i, e, last) ==
    IF i > Len(statements) THEN [failed |-> FALSE, index |-> 0, env |-> e, res |-> last]
    ELSE RunStep(EvalStatement(e, statements[i]), i, e,
                 LAMBDA s : RunToFirstFailure(statements, i + 1, s.env, s.res))

FirstFailure == RunToFirstFailure(program.val, 1, envBefore, Err(UnexpectedError))

Returned == pc = "show"
Evaluated == pc = "show" /\ program.ok

\* names assigned by the statements 1..n
AssignedIn(statements, n) ==
    {statements[i][2] : i \in {j \in 1..n : statements[j][1] = "Assignment"}}

\* C1: when some statement of the input fails during evaluation, parse returns the
\* error of the first statement that fails, whatever follows it
C1_FirstFailureSurfaces == (Evaluated /\ FirstFailure.failed) => res = FirstFailure.res

\* C2: when a statement fails, no later statement runs: the Environment when parse
\* returns is the one produced by the statements before the failing one
C2_NothingRunsAfterFailure == (Evaluated /\ FirstFailure.failed) => env = FirstFailure.env

\* C3: when statement i fails, the bindings made by the assignments among the
\* statements before it are in the Environment after parse returns
C3_NoRollback ==
    (Evaluated /\ FirstFailure.failed) =>
        \A n \in AssignedIn(program.val, FirstFailure.index - 1) :
            n \in DOMAIN env /\ env[n] = FirstFailure.env[n]

LastStatement == program.val[Len(program.val)]
EnvBeforeLast ==
    RunToFirstFailure(SubSeq(program.val, 1, Len(program.val) - 1), 1, envBefore,
                      Err(UnexpectedError)).env

\* C4: when the input has at least one statement and every statement succeeds, parse
\* returns Some(value of the last statement) if that is an Expression statement and
\* None if it is an Assignment or an Empty statement
C4_LastStatementResult ==
    (Evaluated /\ Len(program.val) >= 1 /\ ~FirstFailure.failed) =>
        res = IF LastStatement[1] = "Expression"
              THEN Ok(Some(EvalExpression(EnvBeforeLast, LastStatement[2]).val))
              ELSE Ok(None)

C4_Witness ==
    /\ Returned
    /\ input = TxFive \o TxAssign1
    /\ res = Ok(None)
    /\ env[NameX] = Num(1)

\* C5: every step keeps every binding of the Environment; a binding changes its value
\* only in a parse call whose input holds an Assignment to that name; and a bound x is
\* read by a later call evaluating "x + 1;"
C5_Step ==
    /\ \A n \in DOMAIN env :
        /\ n \in DOMAIN env'
        /\ env'[n] # env[n] =>
            /\ pc = "eval"
            /\ program'.ok
            /\ n \in AssignedIn(program'.val, Len(program'.val))
    /\ (pc = "eval" /\ input = TxXPlus1 /\ NameX \in DOMAIN env) =>
            res' = Ok(Some(RatAdd(env[NameX], Num(1))))

C5_EnvironmentPersists == [][C5_Step]_vars

\* a later call, made after a call that returned an error, reads x bound earlier
C5_Witness ==
    /\ Returned
    /\ mode = "repl"
    /\ erred
    /\ input = TxXPlus1
    /\ NameX \in DOMAIN envBefore
    /\ res = Ok(Some(Num(6)))

\* the names of the Variables of an expression, in evaluation order
RECURSIVE VariablesOf(_)
VariablesOf(expression) ==
    CASE expression[1] = "Number" -> <<>>
      [] expression[1] = "Variable" -> <<expression[2]>>
      [] expression[1] = "Unary" -> VariablesOf(expression[3])
      [] expression[1] = "Binary" -> VariablesOf(expression[2]) \o VariablesOf(expression[4])
      [] expression[1] = "Call" -> VariablesOf(expression[3])

\* an expression whose evaluation can fail only on a Variable
RECURSIVE FailsOnlyOnVariables(_)
FailsOnlyOnVariables(expression) ==
    CASE expression[1] = "Number" -> TRUE
      [] expression[1] = "Variable" -> TRUE
      [] expression[1] = "Unary" -> FailsOnlyOnVariables(expression[3])
      [] expression[1] = "Binary" ->
            /\ expression[3] \in {"Plus", "Minus", "Star"}
            /\ FailsOnlyOnVariables(expression[2])
            /\ FailsOnlyOnVariables(expression[4])
      [] expression[1] = "Call" -> FALSE

UnboundIn(names, e) == {i \in 1..Len(names) : names[i] \notin DOMAIN e}
FirstUnbound(names, e) == names[CHOOSE i \in UnboundIn(names, e) : \A j \in UnboundIn(names, e) : i <= j]

\* C6: when the last statement of the input is an Expression statement whose expression
\* holds a Variable unbound in the Environment (and can fail in no other way), parse
\* returns UndefinedVariable with the name of the first such Variable; "y;" with y
\* never assigned returns UndefinedVariable("y")
C6_UndefinedVariable ==
    /\ (Evaluated /\ Len(program.val) >= 1 /\ LastStatement[1] = "Expression"
            /\ FailsOnlyOnVariables(LastStatement[2])
            /\ UnboundIn(VariablesOf(LastStatement[2]), env) # {}) =>
        res = Err(UndefinedVariable(FirstUnbound(VariablesOf(LastStatement[2]), env)))
    /\ (Returned /\ input = TxY) => res = Err(UndefinedVariable(NameY))

C6_Witness ==
    /\ Returned
    /\ input = TxY
    /\ NameY \notin DOMAIN envBefore
    /\ res = Err(UndefinedVariable(NameY))

\* C7: when the last statement is a Call whose argument evaluates to a value, parse
\* returns what the capability returns for (name, argument), or UnknownFunction(name)
\* when the capability returns nothing; "sqrt(4);" yields 2 and "foo(1);" fails with
\* UnknownFunction("foo")
C7_CallDispatch ==
    /\ (Evaluated /\ Len(program.val) >= 1 /\ LastStatement[1] = "Expression"
            /\ LastStatement[2][1] = "Call"
            /\ EvalExpression(env, LastStatement[2][3]).ok) =>
        res = IF BuiltinCall(LastStatement[2][2],
                             EvalExpression(env, LastStatement[2][3]).val) = None
              THEN Err(UnknownFunction(LastStatement[2][2]))
              ELSE Ok(Some(BuiltinCall(LastStatement[2][2],
                                       EvalExpression(env, LastStatement[2][3]).val)[2]))
    /\ (Returned /\ input = TxSqrt) => res = Ok(Some(Num(2)))
    /\ (Returned /\ input = TxFoo) => res = Err(UnknownFunction(NameFoo))

C7_Witness ==
    /\ Returned
    /\ input = TxAssign5 \o TxFoo
    /\ program.ok
    /\ res = Err(UnknownFunction(NameFoo))

(***************************************************************************)
(* Parser properties, over the lines of SpecExpr                           *)
(***************************************************************************)
\* the priorities as the specification states them
StatedPriority(c) ==
    CASE c \in {"+", "-"} -> 1
      [] c \in {"*", "/"} -> 2
      [] c = "^" -> 3

OpOf(c) == OperatorGet(c)[2]
IsOpChar(c) == c \in OpChars

\* the operator characters of the input, and the kind of its operands
InputOps == SelectSeq(input, IsOpChar)
InputKind == IF input # <<>> /\ input[1] \in {"1", "("} /\ "a" \notin {input[i] : i \in 1..Len(input)}
             THEN "num" ELSE "var"
Count(c) == Cardinality({i \in 1..Len(input) : input[i] = c})

OneExpression(expression) == Ok(<<SExpression(expression)>>)
N(n) == ENumber(Num(n))

\* C8: for priority(b) > priority(a), "x a y b z;" parses to Binary(x, a, Binary(y, b, z))
\* and "x b y a z;" to Binary(Binary(x, b, y), a, z); "2 + 3 * 4;" parses to
\* Binary(2, Plus, Binary(3, Star, 4))
C8_Precedence ==
    Returned =>
        /\ (Len(InputOps) = 2 /\ StatedPriority(InputOps[2]) > StatedPriority(InputOps[1])
                /\ input = ExprText(InputKind, InputOps, 0, 0)) =>
            program = OneExpression(
                EBinary(OperandExpr(InputKind, 1), OpOf(InputOps[1]),
                        EBinary(OperandExpr(InputKind, 2), OpOf(InputOps[2]),
                                OperandExpr(InputKind, 3))))
        /\ (Len(InputOps) = 2 /\ StatedPriority(InputOps[1]) > StatedPriority(InputOps[2])
                /\ input = ExprText(InputKind, InputOps, 0, 0)) =>
            program = OneExpression(
                EBinary(EBinary(OperandExpr(InputKind, 1), OpOf(InputOps[1]),
                                OperandExpr(InputKind, 2)),
                        OpOf(InputOps[2]), OperandExpr(InputKind, 3)))
        /\ input = ExPrecedence =>
            program = OneExpression(EBinary(N(2), "Plus", EBinary(N(3), "Star", N(4))))

C8_Witness ==
    /\ Returned
    /\ input = ExprText("var", <<"*", "+">>, 0, 0)
    /\ program.ok
    /\ program.val[1][2][3] = "Plus"

\* the operands 1..n+1 joined by ops[1..n], grouped to the left
RECURSIVE LeftFold(_, _, _)
LeftFold(kind, ops, n) ==
    IF n = 0 THEN OperandExpr(kind, 1)
    ELSE EBinary(LeftFold(kind, ops, n - 1), OpOf(ops[n]), OperandExpr(kind, n + 1))

\* the operands k.. joined by ops[k..], grouped to the right
RECURSIVE RightFold(_, _, _)
RightFold(kind, ops, k) ==
    IF k > Len(ops) THEN OperandExpr(kind, k)
    ELSE EBinary(OperandExpr(kind, k), OpOf(ops[k]), RightFold(kind, ops, k + 1))

EqualPriority(ops) == \A i, j \in 1..Len(ops) : StatedPriority(ops[i]) = StatedPriority(ops[j])

\* C9: a chain of operators of equal priority groups to the left for Plus, Minus, Star
\* and Slash and to the right for Caret; "1 + 2 - 3;" parses to
\* Binary(Binary(1, Plus, 2), Minus, 3) and "2 ^ 3 ^ 2;" to Binary(2, Caret, Binary(3, Caret, 2))
C9_Associativity ==
    Returned =>
        /\ (Len(InputOps) >= 1 /\ EqualPriority(InputOps)
                /\ input = ExprText(InputKind, InputOps, 0, 0)) =>
            program = OneExpression(IF InputOps[1] = "^"
                                    THEN RightFold(InputKind, InputOps, 1)
                                    ELSE LeftFold(InputKind, InputOps, Len(InputOps)))
        /\ input = ExAddSub =>
            program = OneExpression(EBinary(EBinary(N(1), "Plus", N(2)), "Minus", N(3)))
        /\ input = ExCaret =>
            program = OneExpression(EBinary(N(2), "Caret", EBinary(N(3), "Caret", N(2))))

C9_Witness ==
    /\ Returned
    /\ input = ExprText("var", <<"^", "^", "^">>, 0, 0)
    /\ program.ok
    /\ program.val[1][2][2] = EVariable(<<"a">>)

\* C10: a parenthesised sub-expression is one operand whatever the operators around it
\* are, and adds no node: "(x a y) b z;" parses to Binary(Binary(x, a, y), b, z) and
\* "x a (y b z);" to Binary(x, a, Binary(y, b, z)) for all operators a, b;
\* "(2 + 3) * 4;" evaluates to 20; a line with a "(" that is never closed makes
\* parse_program fail
C10_Parentheses ==
    Returned =>
        /\ (Len(InputOps) = 2 /\ input = ExprText(InputKind, InputOps, 1, 2)) =>
            program = OneExpression(
                EBinary(EBinary(OperandExpr(InputKind, 1), OpOf(InputOps[1]),
                                OperandExpr(InputKind, 2)),
                        OpOf(InputOps[2]), OperandExpr(InputKind, 3)))
        /\ (Len(InputOps) = 2 /\ input = ExprText(InputKind, InputOps, 2, 3)) =>
            program = OneExpression(
                EBinary(OperandExpr(InputKind, 1), OpOf(InputOps[1]),
                        EBinary(OperandExpr(InputKind, 2), OpOf(InputOps[2]),
                                OperandExpr(InputKind, 3))))
        /\ input = Ex234 =>
            /\ program = OneExpression(EBinary(EBinary(N(2), "Plus", N(3)), "Star", N(4)))
            /\ res = Ok(Some(Num(20)))
        /\ Count("(") > Count(")") => ~program.ok

C10_Witness ==
    /\ Returned
    /\ input = Ex234
    /\ res = Ok(Some(Num(20)))

(***************************************************************************)
(* Lexer properties, over the texts of SpecLex                             *)
(***************************************************************************)
LexItemOk(token) == <<"Ok", token>>
LexItemErr(e) == <<"Err", e>>

\* the byte offset just after text: the sum of the UTF-8 lengths of its characters
RECURSIVE ByteLen(_)
ByteLen(text) == IF text = <<>> THEN 0 ELSE LenUtf8(Head(text)) + ByteLen(Tail(text))

Dots(text) == {i \in 1..Len(text) : text[i] = "."}

\* DIGIT+ ('.' DIGIT+)?
IsNumeral(text) ==
    /\ text # <<>>
    /\ \A i \in 1..Len(text) : text[i] \in Digits \cup {"."}
    /\ Cardinality(Dots(text)) <= 1
    /\ \A i \in Dots(text) : 1 < i /\ i < Len(text)

\* the sum of digit * 10^(places to its right) over the digits from index i on
RECURSIVE PositionalValue(_, _)
PositionalValue(digits, i) ==
    IF i > Len(digits) THEN 0
    ELSE DigitVal(digits[i]) * IntPow(10, Len(digits) - i) + PositionalValue(digits, i + 1)

\* the value a numeral denotes in base 10
NumeralValue(text) ==
    Rat(PositionalValue(SelectSeq(text, IsAsciiDigit), 1),
        IntPow(10, IF Dots(text) = {} THEN 0 ELSE Len(text) - (CHOOSE i \in Dots(text) : TRUE)))

Numeral0770 == <<" ", "0", "7", ".", "7", "0", "\t">>

\* C11: for an input that is one numeral DIGIT+ ('.' DIGIT+)? with optional white space
\* around it, the lexer yields exactly one item, the Number token whose value is what the
\* numeral denotes in base 10, and then ends
C11_NumeralToken ==
    (lexPc = "iterating" /\ IsNumeral(Trim(lexInput))) =>
        /\ Len(yielded) <= 1
        /\ yielded # <<>> => yielded[1] = LexItemOk(TNumber(NumeralValue(Trim(lexInput))))
        /\ nones > 0 => Len(yielded) = 1
        /\ lexer = None => nones > 0

C11_Witness ==
    /\ lexInput = Numeral0770
    /\ yielded = <<LexItemOk(TNumber(<<77, 10>>))>>
    /\ nones = 1
    /\ lexer = None

Prefix(text, n) == SubSeq(text, 1, n)
IsPrefixOf(a, b) == Len(a) <= Len(b) /\ a = SubSeq(b, 1, Len(a))

ErrorsIn(items) == {i \in 1..Len(items) : items[i][1] = "Err"}

\* the items of the text before index i, when that text is lexed on its own
ItemsBefore(i) == LexerCollect(LexerNew(Prefix(lexInput, i - 1)))

\* index i starts a token whatever precedes it: it is the first character, or follows
\* white space, an operator symbol or a punctuation symbol
TokenStart(i) ==
    \/ i = 1
    \/ IsWhitespace(lexInput[i - 1])
    \/ OperatorGet(lexInput[i - 1]) # None
    \/ PunctuationGet(lexInput[i - 1]) # None

\* lexInput[i..j] is DIGIT+ '.' at a token start, and no digit follows the point
DanglingPoint(i, j) ==
    /\ i < j
    /\ TokenStart(i)
    /\ \A k \in i..(j - 1) : lexInput[k] \in Digits
    /\ lexInput[j] = "."
    /\ (j = Len(lexInput) \/ lexInput[j + 1] \notin Digits)

\* what the lexer is to yield in all: the tokens of the text before, then the error
YieldsThenError(before, e) == before \o <<LexItemErr(e)>>

\* the lexer has yielded nothing outside all, and has ended exactly when it yielded all
YieldsExactly(all) ==
    /\ IsPrefixOf(yielded, all)
    /\ (lexer = None) = (yielded = all)

Text5Dot == <<"5", ".">>
TextNbsp425Dot == <<NoBreakSpace, "4", "2", "5", ".">>

\* C12: when the text before it is lexed without error and the lexer then reads DIGIT+ '.'
\* followed by no digit, the lexer yields the tokens of the text before and then
\* InvalidNumber(digits and point, byte offset just after the point), and never a Number for
\* that numeral; "5." yields exactly [Err(InvalidNumber("5.", 2))]
C12_DanglingPoint ==
    lexPc = "iterating" =>
        /\ \A i, j \in 1..Len(lexInput) :
            (DanglingPoint(i, j) /\ ErrorsIn(ItemsBefore(i)) = {}) =>
                YieldsExactly(YieldsThenError(ItemsBefore(i),
                    InvalidNumber(SubSeq(lexInput, i, j), ByteLen(Prefix(lexInput, j)))))
        /\ (lexInput = Text5Dot /\ lexer = None) =>
                yielded = <<LexItemErr(InvalidNumber(Text5Dot, 2))>>

C12_Witness ==
    /\ lexInput = TextNbsp425Dot
    /\ yielded = <<LexItemErr(InvalidNumber(<<"4", "2", "5", ".">>, 6))>>
    /\ lexer = None

\* the character at index k can start no token: it is no white space, digit, letter,
\* operator or punctuation symbol, and the lexer meets it in its Start state ('.' and '_'
\* can continue a token, so they count at a token start only)
UnexpectedAt(k) ==
    LET c == lexInput[k] IN
    /\ ~IsWhitespace(c)
    /\ ~IsAsciiDigit(c)
    /\ ~IsAsciiAlphabetic(c)
    /\ OperatorGet(c) = None
    /\ PunctuationGet(c) = None
    /\ (c \in {".", "_"} => TokenStart(k))

Text42Amp == <<"4", "2", " ", "&">>
TextNbspXE == <<NoBreakSpace, "x", "é">>

\* C13: when the text before it is lexed without error and the lexer meets, in its Start
\* state, a character c that can start no token, it yields the tokens of the text before c,
\* in order, and then UnexpectedChar(c, byte offset of c); "42 &" yields
\* [Number(42), Err(UnexpectedChar('&', 3))]
C13_UnexpectedChar ==
    lexPc = "iterating" =>
        /\ \A k \in 1..Len(lexInput) :
            (UnexpectedAt(k) /\ ErrorsIn(ItemsBefore(k)) = {}) =>
                YieldsExactly(YieldsThenError(ItemsBefore(k),
                    UnexpectedChar(lexInput[k], ByteLen(Prefix(lexInput, k - 1)))))
        /\ (lexInput = Text42Amp /\ lexer = None) =>
                yielded = <<LexItemOk(TNumber(Num(42))), LexItemErr(UnexpectedChar("&", 3))>>

C13_Witness ==
    /\ lexInput = TextNbspXE
    /\ yielded = <<LexItemOk(TIdentifier(<<"x">>)), LexItemErr(UnexpectedChar("é", 3))>>
    /\ lexer = None

\* the lexer has yielded an error or has returned None
LexerEnded(items, n) == ErrorsIn(items) # {} \/ n > 0

C14_Step ==
    /\ LexerEnded(yielded, nones) => (yielded' = yielded /\ lexer' = None)
    /\ Cardinality(ErrorsIn(yielded')) <= 1
    /\ \A i \in ErrorsIn(yielded') : i = Len(yielded')
    /\ LexerEnded(yielded', nones') => lexer' = None

\* C14: once the lexer has yielded an error or has returned None, every later call of
\* next() yields nothing; the items it yields hold at most one error, which is the last
C14_LexerNeverResumes == [][C14_Step]_vars

\* the text after the rejected character is never lexed
C14_Witness ==
    /\ lexInput = <<"&", "4", "2", ";">>
    /\ yielded = <<LexItemErr(UnexpectedChar("&", 0))>>
    /\ nones = 2

(***************************************************************************)
(* Statement termination, calls, errors and constants, over the lines of   *)
(* SpecProg                                                                *)
(***************************************************************************)
\* the text that follows the body of piece i of a shape
AfterBody(shape, i) == shape[i][2] \o ShapeText(SubSeq(shape, i + 1, Len(shape)))

FollowedBySemicolon(shape, i) ==
    TrimStart(AfterBody(shape, i)) # <<>> /\ Head(TrimStart(AfterBody(shape, i))) = ";"

\* some Assignment or Expression statement of the shape is not followed by a semicolon
Unterminated(shape) ==
    \E i \in 1..Len(shape) : shape[i][1] # BodyEmpty /\ ~FollowedBySemicolon(shape, i)

\* every Assignment or Expression statement is followed by a semicolon, and nothing
\* else stands between the statements
Terminated(shape) ==
    \A i \in 1..Len(shape) :
        IF shape[i][1] # BodyEmpty THEN shape[i][2] = <<";">> ELSE shape[i][2] \in {<<";">>, <<>>}

UnterminatedTexts ==
    {ShapeText(shape) :
        shape \in {t \in ProgShapes(WellFormedBodies, MaxProgPieces) : Unterminated(t)}}

TerminatedTexts ==
    {ShapeText(shape) :
        shape \in {t \in ProgShapes(WellFormedBodies, MaxProgPieces) : Terminated(t)}}

\* C15: when some Assignment or Expression statement of the input is followed by the end
\* of the input or by a token other than a Semicolon, parse_program returns UnexpectedEnd
\* or UnexpectedToken and no statement list; when each is followed by a Semicolon, it
\* returns one statement per Semicolon; "2 + 3" without ";" is rejected with UnexpectedEnd
C15_SemicolonRequired ==
    Returned =>
        /\ input \in UnterminatedTexts =>
            /\ ~program.ok
            /\ program.val[1] \in {"UnexpectedEnd", "UnexpectedToken"}
            /\ res = Err(ParserError(program.val))
        /\ input \in TerminatedTexts => (program.ok /\ Len(program.val) = Count(";"))
        /\ input = BodyExpression => program = Err(UnexpectedEnd)

C15_Witness ==
    /\ Returned
    /\ input = BodyAssignment \o <<";">> \o BodyExpression \o <<" ", ")">>
    /\ program = Err(UnexpectedToken(TPunctuation("RightParenthesis")))
    /\ NameX \notin DOMAIN env

\* C16: a call whose parentheses enclose a binary-operator expression is not parsed into a
\* Call with a Binary argument; "f(1+2);" is not parsed into Call(f, Binary(1, Plus, 2))
C16_CallArgumentIsOnePrimary ==
    (Returned /\ input \in CallLines /\ program.ok) =>
        ~(LastStatement[2][1] = "Call" /\ LastStatement[2][3][1] = "Binary")

\* C16, as the code has it: the argument of a call is a full expression between
\* parentheses, IDENT ('(' expression ')')?: "name(argument);" parses to Call(name, E)
\* where "argument;" parses to E; "f(1+2);" parses to Call(f, Binary(1, Plus, 2))
C16_CallArgumentIsExpression ==
    Returned =>
        /\ \A name \in {NameF, NameSqrt}, argument \in ArgTexts :
            input = CallText(name, argument) =>
                /\ ParseProgram(argument \o <<";">>).ok
                /\ program = OneExpression(
                        ECall(name, ParseProgram(argument \o <<";">>).val[1][2]))
        /\ input = TxF12 =>
                program = OneExpression(ECall(NameF, EBinary(N(1), "Plus", N(2))))

C16_Witness ==
    /\ Returned
    /\ input = TxF12
    /\ program = OneExpression(ECall(NameF, EBinary(N(1), "Plus", N(2))))
    /\ res = Err(UnknownFunction(NameF))

\* C17: "sqrt(2 + 3);" parses to Call("sqrt", Binary(2, Plus, 3)) and "f(g(1));" to
\* Call("f", Call("g", 1))
C17_CallOfExpression ==
    Returned =>
        /\ input = TxSqrt23 =>
                program = OneExpression(ECall(NameSqrt, EBinary(N(2), "Plus", N(3))))
        /\ input = TxFG1 =>
                program = OneExpression(ECall(NameF, ECall(NameG, N(1))))

\* the inner call is evaluated first
C17_Witness ==
    /\ Returned
    /\ input = TxFG1
    /\ program = OneExpression(ECall(NameF, ECall(NameG, N(1))))
    /\ res = Err(UnknownFunction(NameG))

\* C18: parse never returns UnexpectedError, whatever the input (the empty string and
\* white space included) and the Environment
C18_NoUnexpectedError == Returned => res # Err(UnexpectedError)

\* the statements of the input up to its k-th character, a semicolon, when they are
\* well formed
StatementsUpTo(k) == ParseProgram(Prefix(input, k))

\* C19: when parse returns a ParserError, the assignments made by the well-formed
\* statements that precede the failing one are in the Environment: after "x = 5; 2 +"
\* x is bound to 5
C19_AssignmentsBeforeParseError ==
    (Returned /\ ~program.ok) =>
        /\ \A k \in 1..Len(input) :
            (/\ input[k] = ";"
             /\ StatementsUpTo(k).ok
             /\ ~RunToFirstFailure(StatementsUpTo(k).val, 1, envBefore, Ok(None)).failed) =>
                \A n \in AssignedIn(StatementsUpTo(k).val, Len(StatementsUpTo(k).val)) :
                    /\ n \in DOMAIN env
                    /\ env[n] = RunToFirstFailure(StatementsUpTo(k).val, 1, envBefore,
                                                  Ok(None)).env[n]
        /\ input = TxAssignThenCutShort => (NameX \in DOMAIN env /\ env[NameX] = Num(5))

\* C20: an Evaluator constructed with a capability that exposes constants has each
\* constant bound to its value before any input is evaluated: "pi;" as the first input
\* yields the constant
C20_ConstantsSeeded ==
    (Returned /\ mode = "args" /\ input = TxPi) =>
        /\ \A name \in DOMAIN DefaultBuiltinsConstants :
            name \in DOMAIN envBefore /\ envBefore[name] = DefaultBuiltinsConstants[name]
        /\ res = Ok(Some(DefaultBuiltinsConstants[NamePi]))

(***************************************************************************)
(* Frame properties of the Environment, over the lines of SpecEnv          *)
(***************************************************************************)
IsAssignment(statement) == statement[1] = "Assignment"

\* C21: Expression and Empty statements leave every binding unchanged, whether they
\* succeed or fail: the Environment after an input is the one its Assignment statements
\* alone produce, and an input without an Assignment statement leaves it as it was
C21_OnlyAssignmentsMutate ==
    Evaluated =>
        /\ env = EvalLoop(SelectSeq(program.val, IsAssignment), envBefore,
                          Err(UnexpectedError)).env
        /\ SelectSeq(program.val, IsAssignment) = <<>> => env = envBefore

\* a failing Call and a succeeding Unary were evaluated with x bound, and x is as it was
C21_Witness ==
    /\ Returned
    /\ input = StNegate \o StUnknown
    /\ envBefore = EnvInsert(EmptyEnv, NameX, Num(5))
    /\ env = envBefore
    /\ res = Err(UnknownFunction(NameFoo))

\* the input is one Assignment statement
OneAssignment == Evaluated /\ Len(program.val) = 1 /\ IsAssignment(program.val[1])
Target == program.val[1][2]
RightSide == EvalExpression(envBefore, program.val[1][3])

\* C27: the right side of an Assignment is evaluated against the Environment as it was
\* before the statement; on success the target name alone is rebound, to that value, and
\* the statement yields no value; on failure the Environment, a prior binding of the
\* target included, is unchanged; "x = 1 - x;" reads the old x, and after
\* "x = 5; x = x + 1;" x is 6
C27_AssignmentAllOrNothing ==
    /\ (OneAssignment /\ RightSide.ok) =>
            /\ DOMAIN env = DOMAIN envBefore \cup {Target}
            /\ env[Target] = RightSide.val
            /\ \A name \in DOMAIN envBefore \ {Target} : env[name] = envBefore[name]
            /\ res = Ok(None)
    /\ (OneAssignment /\ ~RightSide.ok) => (env = envBefore /\ res = RightSide)
    /\ (Returned /\ input = StFlip /\ NameX \in DOMAIN envBefore) =>
            env[NameX] = RatSub(Num(1), envBefore[NameX])
    /\ (Returned /\ input = StFlip /\ NameX \notin DOMAIN envBefore) =>
            (env = envBefore /\ res = Err(UndefinedVariable(NameX)))
    /\ (Returned /\ input = TxIncrement) => env[NameX] = Num(6)

\* a failing right side left the prior binding of the target, and y, as they were
C27_Witness ==
    /\ Returned
    /\ input = StAssignDivZero
    /\ NameX \in DOMAIN envBefore
    /\ NameY \in DOMAIN envBefore
    /\ env = envBefore
    /\ res = Err(OperationFailed("division by zero"))

(***************************************************************************)
(* Termination: a run is a session of the front end or an iteration of the *)
(* lexer, every request and every call being taken once it is made         *)
(***************************************************************************)
NextFair ==
    \/ lexPc = "idle" /\ NextProg
    \/ pc = "main" /\ NextLex

\* ENABLED <<LexNext>>_vars and ENABLED <<Parse>>_vars, written out: each action changes
\* vars whenever its guard holds
LexNextEnabled == lexPc = "iterating" /\ nones < MaxNones
ParseEnabled == pc = "eval"

\* weak fairness of LexNext and of Parse, with their enabling conditions written out
LexNextFair == ([]<>~LexNextEnabled) \/ ([]<><<LexNext>>_vars)
ParseFair == ([]<>~ParseEnabled) \/ ([]<><<Parse>>_vars)

\* a call that was made runs: the lexer answers a request, Evaluator::parse is
\* executed, the result is printed
SpecFair ==
    Init /\ [][NextFair]_vars /\ LexNextFair /\ ParseFair /\ WF_vars(ShowResult)

\* characters the lexer has still to read
Remaining(fsm) ==
    IF fsm = None THEN 0
    ELSE Len(fsm[2].input) + (IF fsm[2].current_char = NoChar THEN 0 ELSE 1)

\* a request either ends the iteration or yields one item and leaves fewer characters
LexNextConsumes ==
    (lexPc = "iterating" /\ lexPc' = "iterating") =>
        \/ lexer' = None
        \/ /\ lexer # None
           /\ Remaining(lexer') < Remaining(lexer)
           /\ lexer'[2].position > lexer[2].position
           /\ Len(yielded') = Len(yielded) + 1

\* the requests parse_program can make of the lexer before it returns None
TokenRequests(text) == Len(LexerCollect(LexerNew(text))) + 1

Signs == {"+", "-"}

\* one to MaxSigns leading signs
SignSeqs == UNION {[1..n -> Signs] : n \in 1..MaxSigns}
SignedOperands == {<<"x">>, <<"4">>}
RightOperands == {<<"y">>, <<"2">>}

\* signs a op b;
UnaryText(signs, a, op, b) == signs \o a \o <<" ", op, " ">> \o b \o <<";">>

TxNegative4 == <<"-", "4", ";">>
TxPositive5 == <<"+", "5", ";">>
TxNegativeTwice == <<"-", "-", "4", ";">>
TxSignAfterCaret == <<"2", " ", "^", " ", "-", "x", " ", "^", " ", "2", ";">>
TxSignedParenthesis == <<"-", "(", "x", " ", "+", " ", "y", ")", " ", "*", " ", "2", ";">>
TxSignAfterStar == <<"2", " ", "*", " ", "-", "x", " ", "+", " ", "y", ";">>

UnaryLines ==
    {UnaryText(signs, a, op, b) :
        signs \in SignSeqs, a \in SignedOperands, op \in OpChars, b \in RightOperands}
    \cup {TxNegative4, TxPositive5, TxNegativeTwice, TxSignAfterCaret,
          TxSignedParenthesis, TxSignAfterStar, TxAssign5, TxAssign5 \o StCopy}

NextUnary ==
    \/ MainRepl
    \/ MainArgs(UnaryLines)
    \/ ReplBlank
    \/ ReplExit
    \/ ReplLine(UnaryLines)
    \/ Parse
    \/ ShowResult

\* a session over lines that carry a leading sign
SpecUnary == Init /\ [][NextUnary]_vars

OperandOf(text) == IF IsAsciiDigit(text[1]) THEN N(DigitVal(text[1])) ELSE EVariable(text)
SignOf(sign) == UnaryOpTryFrom(OperatorGet(sign)[2]).val

\* the operand under its signs, the first sign outermost
RECURSIVE Signed(_, _)
Signed(signs, operand) ==
    IF signs = <<>> THEN operand
    ELSE EUnary(SignOf(Head(signs)), Signed(Tail(signs), operand))

\* C26: a leading + or - applies only to the primary that follows it and binds tighter
\* than every binary operator, Caret included: "-a op b;" parses to
\* Binary(Unary(Negative, a), op, b) for every binary operator op, "-4;" parses to
\* Unary(Negative, Number(4)), and the sign is applied to its one operand before the
\* binary operator is
C26_UnaryBindsTightest ==
    Returned =>
        /\ \A signs \in SignSeqs, a \in SignedOperands, op \in OpChars, b \in RightOperands :
              input = UnaryText(signs, a, op, b) =>
                  program = OneExpression(EBinary(Signed(signs, OperandOf(a)),
                                                  OperatorGet(op)[2], OperandOf(b)))
        /\ input = TxNegative4 => program = OneExpression(EUnary("Negative", N(4)))
        /\ input = TxPositive5 => program = OneExpression(EUnary("Positive", N(5)))
        /\ input = TxNegativeTwice =>
              program = OneExpression(EUnary("Negative", EUnary("Negative", N(4))))
        /\ input = TxSignAfterCaret =>
              program = OneExpression(EBinary(N(2), "Caret",
                            EBinary(EUnary("Negative", EVariable(NameX)), "Caret", N(2))))
        /\ input = TxSignedParenthesis =>
              program = OneExpression(EBinary(
                            EUnary("Negative", EBinary(EVariable(NameX), "Plus", EVariable(NameY))),
                            "Star", N(2)))
        /\ input = TxSignAfterStar =>
              program = OneExpression(EBinary(
                            EBinary(N(2), "Star", EUnary("Negative", EVariable(NameX))),
                            "Plus", EVariable(NameY)))
        /\ input = UnaryText(<<"-">>, <<"4">>, "^", <<"2">>) => res = Ok(Some(Num(16)))
        /\ (input = UnaryText(<<"-">>, <<"x">>, "-", <<"y">>) /\ {NameX, NameY} \subseteq DOMAIN envBefore) =>
              res = Ok(Some(RatSub(RatSub(Zero, envBefore[NameX]), envBefore[NameY])))

C26_Witness ==
    /\ Returned
    /\ input = UnaryText(<<"-">>, <<"x">>, "^", <<"2">>)
    /\ program = OneExpression(EBinary(EUnary("Negative", EVariable(NameX)), "Caret", N(2)))
    /\ NameX \in DOMAIN envBefore
    /\ envBefore[NameX] = Num(5)
    /\ res = Ok(Some(Num(25)))

(***************************************************************************)
(* Statement classification, over the lines of SpecProg                    *)
(***************************************************************************)
\* the statement a body followed by a semicolon is to parse to
StatementOf(body) ==
    CASE body = BodyExpression -> SExpression(EBinary(N(2), "Plus", N(3)))
      [] body = BodyAssignment -> SAssignment(NameX, N(5))
      [] body = BodyVariable -> SExpression(EVariable(NameY))
      [] body = BodyEmpty -> SEmpty

\* the statements of a shape whose statements are all terminated, in input order
RECURSIVE ShapeStatements(_)
ShapeStatements(shape) ==
    IF shape = <<>> THEN <<>>
    ELSE (IF Head(shape)[2] = <<";">> THEN <<StatementOf(Head(shape)[1])>> ELSE <<>>)
         \o ShapeStatements(Tail(shape))

ExpectedPrograms ==
    {<<ShapeText(shape), ShapeStatements(shape)>> :
        shape \in {t \in ProgShapes(WellFormedBodies, MaxProgPieces) : Terminated(t)}}

\* C22: a statement that starts with an Identifier followed by the Assignment token
\* parses to Assignment(name, expr), expr being the whole right side; a bare Semicolon
\* parses to Empty; every other start parses to an Expression statement; parse_program
\* returns the statements in input order; "x = 1; y = x + 2;" yields the two Assignments
\* in that order and ";" yields [Empty]
C22_StatementClassification ==
    Returned =>
        /\ \A expected \in ExpectedPrograms : input = expected[1] => program = Ok(expected[2])
        /\ input \in CallLines =>
                (program.ok /\ Len(program.val) = 1 /\ program.val[1][1] = "Expression")
        /\ input = TxTwoAssignments =>
                program = Ok(<<SAssignment(NameX, N(1)),
                               SAssignment(NameY, EBinary(EVariable(NameX), "Plus", N(2)))>>)
        /\ input = <<";">> => program = Ok(<<SEmpty>>)

C22_Witness ==
    /\ Returned
    /\ input = <<";">> \o BodyAssignment \o <<";">>
    /\ program = Ok(<<SEmpty, SAssignment(NameX, N(5))>>)
    /\ env[NameX] = Num(5)

(***************************************************************************)
(* The legacy calculator, over the calls of SpecLegacy                     *)
(***************************************************************************)
ValueOf(text) == FromDecStr(ReplaceCommas(text)).val

\* calculate has returned for the expression a, run with gap between its operators, b
Calculated(a, run, gap, b) ==
    /\ calcPc = "calculated"
    /\ calcExpression = Trim(ReplaceCommas(RunExpression(a, run, gap, b)))

NormalisedRuns ==
    {<<"-", "+">>, <<"+", "-">>, <<"+", "+">>, <<"-", "-">>, <<"*", "-">>, <<"/", "-">>}

\* what the two operators of run between x and y are to mean
Normalised(run, x, y) ==
    CASE run \in {<<"-", "+">>, <<"+", "-">>} -> RatSub(x, y)
      [] run \in {<<"+", "+">>, <<"-", "-">>} -> RatAdd(x, y)
      [] run = <<"*", "-">> -> RatMul(x, RatSub(Zero, y))
      [] run = <<"/", "-">> -> RatDiv(x, RatSub(Zero, y))

\* two operators in a row are normalised and three or more are an error, for the
\* expressions whose operators have gap between them
RunsHandled(gap) ==
    \A a \in LeftOperands, b \in RightOperands2 :
        /\ \A run \in NormalisedRuns :
              Calculated(a, run, gap, b) =>
                  outcome = Ok(Normalised(run, ValueOf(a), ValueOf(b)))
        /\ \A run \in {r \in OperatorRuns : Len(r) >= 3} :
              (/\ calcPc \in {"parsed", "calculated"}
               /\ calcExpression = Trim(ReplaceCommas(RunExpression(a, run, gap, b))))
                  => IsErr(outcome)

\* the operators written without white space between them
AdjacentRunsHandled == RunsHandled(<<>>)

\* C24: calculate normalises two consecutive operators between operands a and b: a-+b
\* and a+-b equal a-b, a++b and a--b equal a+b, a*-b equals a*(-b) and a/-b equals
\* a/(-b); three or more consecutive operators make parse return an error
C24_ConsecutiveOperators == \A gap \in Gaps : RunsHandled(gap)

Operated(operator, base, exponent) ==
    /\ calcPc = "operated"
    /\ operation = [operator |-> operator, operand1 |-> base, operand2 |-> exponent]

IntegerExponents == {e \in PowExponents : ValueOf(e)[2] = 1}

\* C25: with operator ^ and an integer exponent the operation returns the base raised
\* to the exponent (2^3 = 8, 0^n = 0 for every n > 0), and it returns an error exactly
\* for 0^0 and for 0 raised to a negative exponent
C25_PowIntegerExponent ==
    \A base \in PowBases, exponent \in IntegerExponents :
        Operated(<<"^">>, base, exponent) =>
            \/ IsApproximate(outcome)
            \/ IF ValueOf(base) = Zero /\ ValueOf(exponent)[1] <= 0
               THEN IsErr(outcome)
               ELSE outcome = Ok(RatPow(ValueOf(base), ValueOf(exponent)))

\* the part of C25 that holds: a positive base that is an f64
PowPositiveBase ==
    \A base \in PowBases, exponent \in IntegerExponents :
        (Operated(<<"^">>, base, exponent) /\ ValueOf(base)[1] > 0) =>
            \/ IsApproximate(outcome)
            \/ outcome = Ok(RatPow(ValueOf(base), ValueOf(exponent)))

\* the examples of tests::test_calculate and of the documentation of pow
LegacyExamples ==
    /\ Operated(<<"^">>, <<"2">>, <<"3">>) => outcome = Ok(Num(8))
    /\ Calculated(<<"1", "2", ",", "4">>, <<"-", "+">>, <<>>, <<"0", ",", "4">>) => outcome = Ok(Num(12))
    /\ Calculated(<<"1", "2", ",", "4">>, <<"+", "+">>, <<>>, <<"0", ",", "4">>) => outcome = Ok(Rat(128, 10))
    /\ Calculated(<<"1", "2", ",", "4">>, <<"-", "-">>, <<>>, <<"0", ",", "4">>) => outcome = Ok(Rat(128, 10))
    /\ Calculated(<<"1", "2", ",", "4">>, <<"+", "-">>, <<>>, <<"0", ",", "4">>) => outcome = Ok(Num(12))
    /\ Calculated(<<"1", "2", ",", "4">>, <<"*", "-">>, <<>>, <<"0", ",", "5">>) => outcome = Ok(Rat(-62, 10))
    /\ Calculated(<<"1", "2", ",", "4">>, <<"/", "-">>, <<>>, <<"0", ",", "5">>) => outcome = Ok(Rat(-248, 10))

====
